---- MODULE Spec2Model ----
(***************************************************************************)
(* A model of grit: the staging index (src/index.rs), the atomic file      *)
(* layer (src/file.rs), the object store (src/database.rs), the object     *)
(* encodings (src/object*.rs), the tree building of `commit`               *)
(* (src/command/commit.rs) and `status` (src/command/status.rs,            *)
(* src/workspace.rs).                                                      *)
(*                                                                         *)
(* Bytes are naturals in 0..255 and byte strings are sequences of bytes.   *)
(* Paths are byte strings; `/` is the byte 47.                             *)
(***************************************************************************)
EXTENDS Integers, Sequences, FiniteSets, TLC

VARIABLES
    \* --- SpecIndex: one process driving an Index (src/index.rs) ---
    idxDisk,       \* Option<bytes>: content of `.git/index`
    idxLockFile,   \* BOOLEAN: `.git/index.lock` exists
    idxPc,         \* "closed" | "open" | "failed"
    idxEntries,    \* Index::entries: function path -> Entry
    idxChanged,    \* Index::changed
    idxAtCommit,   \* Option<entries>: entries in memory when commit returned Ok
    idxFresh,      \* BOOLEAN: no insert since the last Index::lock
    idxInserts,    \* number of Index::insert calls so far
    idxOpens,      \* number of Index::lock calls so far
    idxLast,       \* Option<[path, before, metadata, id]>: the last Index::insert and the map before it
    \* --- SpecObject: one object stored and loaded (src/database.rs) ---
    objTz,         \* local UTC offset (minutes) of the process
    objIn,         \* the object given to Database::store
    objFile,       \* Option<bytes>: the object file
    objOut,        \* Option<result of Database::load>
    objReload,     \* Option<[tz, person]>: the author as read back by a process
    \* --- SpecRepo: processes sharing one `.git` directory (src/file.rs) ---
    fs,            \* the files below `.git`: path |-> content
    fs0,           \* the files below `.git` before any process ran
    pc,            \* per process: where it stands in its command
    cmd,           \* per process: the command it runs
    held,          \* per process: the stack of live `Atomic` values
    mem,           \* per process: the `entries` and `changed` of its Index
    res,           \* per process: Option<result of its command>
    acquiredBy,    \* history: [proc, source] of every Atomic::new that succeeded
    renamedBy,     \* history: [proc, source, target] of every successful rename
    removedBy,     \* history: [proc, source] of every remove_file by a Drop
    images,        \* history: <<target, bytes>> each commit meant to publish
    commitLog,     \* history: the adds whose Index::commit returned Ok, in order
    faulted,       \* the processes that met an I/O error or a panic
    \* --- SpecWalk: Commit::walk_index over one index (src/command/commit.rs) ---
    wkEntries,     \* Index::entries: function path -> Entry
    wkIter,        \* index::Iter: [rest, state, queue]
    wkNodes,       \* history: the nodes the iterator has yielded, in order
    wkStack,       \* walk_index: `stack`, the tree nodes not yet in a tree
    wkCount,       \* walk_index: `count`, nodes pushed per open depth
    wkDb,          \* the object store: id |-> content of the object file
    wkPc,          \* "walk" | "done" | "panic"
    wkRoot,        \* Option<Id>: what walk_index returned
    \* --- SpecStatus: Status::run and Show::run over one repository (src/command) ---
    stDb,          \* the object store: id |-> content of the object file
    stHead,        \* Option<Id>: what References::read_head returns
    stRoot,        \* Option<Id>: the root tree of the last commit
    stEntries,     \* Index::entries: function path -> Entry
    stWork,        \* the working tree: path |-> [mode, mtime, data], data absent for directories
    stMem,         \* Option<[via, pc, head, workspace]>: the locals of Status::run
    stOut,         \* Option<[via, res, lines]>: how the command ended, and what `show` printed
    \* --- SpecDiff: one call of myers (src/diff.rs) ---
    dfA,           \* myers: `a`
    dfB,           \* myers: `b`
    dfV,           \* myers: `v`, the Vec inside the Ring
    dfD,           \* myers: `d` of the outer loop
    dfK,           \* myers: `k` of the inner loop
    dfPc,          \* "idle" | "loop" | "done" | "panic"
    dfOut,         \* Option<usize>: what myers returned
    \* --- SpecWorkspace: one walk of a working tree (src/workspace.rs) ---
    wsTree,        \* the files below the root: path |-> [type, exec, target]
    wsStart,       \* the `relative` path given to walk_list or walk_tree
    wsKind,        \* "list" | "tree": which of the two was called
    wsStack,       \* the ReadDir values still open, each the set of paths it has left
    wsYield,       \* history: the entries yielded so far
    wsSeen,        \* history: the paths whose metadata the walk has taken
    wsPc,          \* "idle" | "file" | "iter" | "end" | "error" | "panic"
    wsErr,         \* Option<kind> of the io::Error returned
    \* --- SpecChanges: one iteration over a Changes (src/command/status.rs) ---
    chIndexHead,   \* Changes::index_head: path -> IndexHeadChange
    chWorkIndex,   \* Changes::workspace_index: path -> WorkspaceIndexChange
    chI,           \* ChangesIter::index_head: entries already taken
    chW,           \* ChangesIter::workspace_index: entries already taken
    chOut,         \* the items ChangesIter::next has yielded, in order
    chPc,          \* "new" | "iter" | "done"
    \* --- SpecChecksum: writes through a Checksum, then write_checksum (src/file.rs) ---
    ckHash,        \* Checksum::hash: the bytes given to Sha1::update so far
    ckInner,       \* Checksum::inner: the bytes the underlying stream has accepted
    ckBuf,         \* the part of the buffer that the write_all in progress still has to write
    ckBefore,      \* Option<bytes>: what the stream had accepted when write_checksum was called
    ckWrites,      \* write_all calls made on the Checksum
    ckIntr,        \* write calls of the stream that ended with ErrorKind::Interrupted
    ckPc,          \* "ready" | "write_all" | "trailer" | "done" | "failed"
    \* --- SpecEntry: one index entry written and read back (src/index.rs, Entry) ---
    enPath,        \* Entry::path of the entry written
    enFile,        \* metadata and id of the entry written
    enTail,        \* the bytes that follow the entry in the stream
    enBytes,       \* Option<bytes>: what Entry::write wrote
    enRead,        \* Option<Result<[entry, pos]>>: what Entry::read returned
    \* --- SpecHistory: processes run `add` and `commit` commands on one repository ---
    hiFs,          \* path under .git -> content: index, HEAD and their lock files
    hiDb,          \* object id -> content of the object file
    hiPc,          \* where each process is in its command
    hiCmd,         \* the command each process runs
    hiMem,         \* the running command: Index, walk_index locals, parent, commit
    hiRes,         \* Option: how the last command of each process ended
    hiRuns,        \* commands started so far
    hiFails,       \* I/O errors injected so far
    hiLog,         \* the commits whose write_head has rotated HEAD, in order
    \* --- SpecMeta: one stat result converted to index metadata (src/meta.rs) ---
    mtStat,        \* the fs::Metadata: 64-bit fields as 8 bytes, big-endian
    mtOut,         \* Option<Result<Metadata>>: what Metadata::from produced
    mtBytes        \* Option<bytes>: what Metadata::write wrote of it

objVars == <<objTz, objIn, objFile, objOut, objReload>>

repoVars == <<fs, fs0, pc, cmd, held, mem, res, acquiredBy, renamedBy, removedBy,
              images, commitLog, faulted>>

idxVars == <<idxDisk, idxLockFile, idxPc, idxEntries, idxChanged, idxAtCommit,
             idxFresh, idxInserts, idxOpens, idxLast>>

walkVars == <<wkEntries, wkIter, wkNodes, wkStack, wkCount, wkDb, wkPc, wkRoot>>

statusVars == <<stDb, stHead, stRoot, stEntries, stWork, stMem, stOut>>

diffVars == <<dfA, dfB, dfV, dfD, dfK, dfPc, dfOut>>

wsVars == <<wsTree, wsStart, wsKind, wsStack, wsYield, wsSeen, wsPc, wsErr>>

changesVars == <<chIndexHead, chWorkIndex, chI, chW, chOut, chPc>>

checksumVars == <<ckHash, ckInner, ckBuf, ckBefore, ckWrites, ckIntr, ckPc>>

entryVars == <<enPath, enFile, enTail, enBytes, enRead>>

historyVars == <<hiFs, hiDb, hiPc, hiCmd, hiMem, hiRes, hiRuns, hiFails, hiLog>>

metaVars == <<mtStat, mtOut, mtBytes>>

vars == <<idxVars, objVars, repoVars, walkVars, statusVars, diffVars, wsVars, changesVars, checksumVars, entryVars, historyVars, metaVars>>

\* The variables that the actions of one specification leave alone.
idxOthers == <<objVars, repoVars, walkVars, statusVars, diffVars, wsVars, changesVars, checksumVars, entryVars, historyVars, metaVars>>
objOthers == <<idxVars, repoVars, walkVars, statusVars, diffVars, wsVars, changesVars, checksumVars, entryVars, historyVars, metaVars>>
repoOthers == <<idxVars, objVars, walkVars, statusVars, diffVars, wsVars, changesVars, checksumVars, entryVars, historyVars, metaVars>>
walkOthers == <<idxVars, objVars, repoVars, statusVars, diffVars, wsVars, changesVars, checksumVars, entryVars, historyVars, metaVars>>
statusOthers == <<idxVars, objVars, repoVars, walkVars, diffVars, wsVars, changesVars, checksumVars, entryVars, historyVars, metaVars>>
diffOthers == <<idxVars, objVars, repoVars, walkVars, statusVars, wsVars, changesVars, checksumVars, entryVars, historyVars, metaVars>>
wsOthers == <<idxVars, objVars, repoVars, walkVars, statusVars, diffVars, changesVars, checksumVars, entryVars, historyVars, metaVars>>
changesOthers == <<idxVars, objVars, repoVars, walkVars, statusVars, diffVars, wsVars, checksumVars, entryVars, historyVars, metaVars>>
checksumOthers == <<idxVars, objVars, repoVars, walkVars, statusVars, diffVars, wsVars, changesVars, entryVars, historyVars, metaVars>>
entryOthers == <<idxVars, objVars, repoVars, walkVars, statusVars, diffVars, wsVars, changesVars, checksumVars, historyVars, metaVars>>
historyOthers == <<idxVars, objVars, repoVars, walkVars, statusVars, diffVars, wsVars, changesVars, checksumVars, entryVars, metaVars>>
metaOthers == <<idxVars, objVars, repoVars, walkVars, statusVars, diffVars, wsVars, changesVars, checksumVars, entryVars, historyVars>>

----------------------------------------------------------------------------
(* Generic helpers *)

None == <<>>
Some(x) == <<x>>
IsSome(o) == o # <<>>

\* The index before any Index::lock: no file, no lock, nothing in memory.
IdleIndex ==
    /\ idxDisk = None
    /\ idxLockFile = FALSE
    /\ idxPc = "closed"
    /\ idxEntries = <<>>
    /\ idxChanged = FALSE
    /\ idxAtCommit = None
    /\ idxFresh = FALSE
    /\ idxInserts = 0
    /\ idxOpens = 0
    /\ idxLast = None

\* The repository before any process has started.
IdleRepo ==
    /\ fs = <<>> /\ fs0 = <<>>
    /\ pc = <<>> /\ cmd = <<>> /\ held = <<>> /\ mem = <<>> /\ res = <<>>
    /\ acquiredBy = {} /\ renamedBy = {} /\ removedBy = {}
    /\ images = {} /\ commitLog = <<>> /\ faulted = {}

\* No walk_index has started.
IdleWalk ==
    /\ wkEntries = <<>>
    /\ wkIter = <<>>
    /\ wkNodes = <<>>
    /\ wkStack = <<>>
    /\ wkCount = <<>>
    /\ wkDb = <<>>
    /\ wkPc = "idle"
    /\ wkRoot = None

\* No status has run.
IdleStatus ==
    /\ stDb = <<>>
    /\ stHead = None
    /\ stRoot = None
    /\ stEntries = <<>>
    /\ stWork = <<>>
    /\ stMem = None
    /\ stOut = None

\* No myers has been called.
IdleDiff ==
    /\ dfA = <<>>
    /\ dfB = <<>>
    /\ dfV = <<>>
    /\ dfD = 0
    /\ dfK = 0
    /\ dfPc = "idle"
    /\ dfOut = None

\* No walk has started.
IdleWs ==
    /\ wsTree = <<>>
    /\ wsStart = <<>>
    /\ wsKind = "none"
    /\ wsStack = <<>>
    /\ wsYield = {}
    /\ wsSeen = {}
    /\ wsPc = "off"
    /\ wsErr = None

\* No change set is being iterated.
IdleChanges ==
    /\ chIndexHead = <<>>
    /\ chWorkIndex = <<>>
    /\ chI = 0
    /\ chW = 0
    /\ chOut = <<>>
    /\ chPc = "new"

\* No Checksum has been written to.
IdleChecksum ==
    /\ ckHash = <<>>
    /\ ckInner = <<>>
    /\ ckBuf = <<>>
    /\ ckBefore = None
    /\ ckWrites = 0
    /\ ckIntr = 0
    /\ ckPc = "ready"

\* No entry is being written.
IdleEntry ==
    /\ enPath = <<>>
    /\ enFile = <<>>
    /\ enTail = <<>>
    /\ enBytes = None
    /\ enRead = None

\* No command of the history specification runs.
IdleHistory ==
    /\ hiFs = <<>>
    /\ hiDb = <<>>
    /\ hiPc = <<>>
    /\ hiCmd = <<>>
    /\ hiMem = <<>>
    /\ hiRes = <<>>
    /\ hiRuns = 0
    /\ hiFails = 0
    /\ hiLog = <<>>

\* No stat result is being converted.
IdleMeta ==
    /\ mtStat = <<>>
    /\ mtOut = None
    /\ mtBytes = None

Ok(x) == [ok |-> TRUE, val |-> x]
Err(kind) == [ok |-> FALSE, err |-> kind]

Min(a, b) == IF a < b THEN a ELSE b

\* Concatenation of a sequence of sequences.
RECURSIVE Flatten(_)
Flatten(ss) == IF ss = <<>> THEN <<>> ELSE Head(ss) \o Flatten(Tail(ss))

Zeros(n) == [i \in 1..n |-> 0]

\* bytes[lo..hi], empty when hi < lo.
Slice(b, lo, hi) == IF hi < lo THEN <<>> ELSE SubSeq(b, lo, hi)

\* byteorder::WriteBytesExt::write_u32::<BigEndian>
BE32(n) ==
    << (n \div 16777216) % 256, (n \div 65536) % 256, (n \div 256) % 256, n % 256 >>

\* byteorder::WriteBytesExt::write_u16::<BigEndian>
BE16(n) == << (n \div 256) % 256, n % 256 >>

\* u32::from_be_bytes on b[pos..pos+4]
ReadBE32(b, pos) == ((b[pos] * 256 + b[pos + 1]) * 256 + b[pos + 2]) * 256 + b[pos + 3]

ReadBE16(b, pos) == b[pos] * 256 + b[pos + 1]

\* Stand-in for SHA-1 (sha1 crate): a 20-byte digest of the bytes and their
\* positions.  The accumulator is a position-weighted sum modulo a prime, so
\* changing one byte always changes the digest; the last two bytes of the
\* digest carry the accumulator itself.
RECURSIVE Sha1Acc(_, _, _)
Sha1Acc(b, lo, hi) ==
    IF lo > hi THEN 0
    ELSE IF lo = hi THEN ((b[lo] + 1) * (31 * lo + 7)) % 65521
    ELSE LET mid == (lo + hi) \div 2
         IN  (Sha1Acc(b, lo, mid) + Sha1Acc(b, mid + 1, hi)) % 65521

Sha1(b) ==
    LET h == (Sha1Acc(b, 1, Len(b)) + 13 * Len(b) + 7) % 65521
    IN  [i \in 1..20 |-> IF i = 19 THEN h \div 256
                         ELSE IF i = 20 THEN h % 256
                         ELSE (h * i + i) % 256]

----------------------------------------------------------------------------
(* Paths: util::PathBuf (byte-wise order) and std::path::Path (components) *)

SLASH == 47

\* [u8]::starts_with
BytesStartsWith(s, prefix) ==
    /\ Len(prefix) <= Len(s)
    /\ \A j \in 1..Len(prefix) : s[j] = prefix[j]

\* Path::components for a relative path: the pieces between slashes.
RECURSIVE Components(_)
Components(p) ==
    IF p = <<>> THEN <<>>
    ELSE IF \E i \in 1..Len(p) : p[i] = SLASH
         THEN LET i == CHOOSE k \in 1..Len(p) :
                          p[k] = SLASH /\ \A j \in 1..(k - 1) : p[j] # SLASH
              IN  (IF i = 1 THEN <<>> ELSE <<SubSeq(p, 1, i - 1)>>)
                  \o Components(Slice(p, i + 1, Len(p)))
         ELSE <<p>>

\* Path::starts_with: component-wise prefix.
PathStartsWith(p, base) ==
    LET cp == Components(p)
        cb == Components(base)
    IN  /\ Len(cb) <= Len(cp)
        /\ \A j \in 1..Len(cb) : cp[j] = cb[j]

RECURSIVE Join(_)
Join(cs) ==
    IF cs = <<>> THEN <<>>
    ELSE IF Len(cs) = 1 THEN cs[1]
    ELSE cs[1] \o <<SLASH>> \o Join(Tail(cs))

\* Path::ancestors: the path itself, then each parent, ending with "".
Ancestors(p) ==
    LET cs == Components(p)
    IN  [k \in 1..(Len(cs) + 1) |-> Join(SubSeq(cs, 1, Len(cs) + 1 - k))]

\* Byte-wise lexicographic order, written out on its own.
RECURSIVE ByteLess(_, _)
ByteLess(a, b) ==
    IF b = <<>> THEN FALSE
    ELSE IF a = <<>> THEN TRUE
    ELSE IF Head(a) # Head(b) THEN Head(a) < Head(b)
    ELSE ByteLess(Tail(a), Tail(b))

\* Ord for std::path::Path, which util::PathBuf does not use: component by
\* component, so that "a/a" comes before "a-".
KeyLess_ComponentWise(a, b) ==
    LET ca == Components(a)
        cb == Components(b)
    IN  \E i \in 1..(Min(Len(ca), Len(cb)) + 1) :
            /\ \A j \in 1..(i - 1) : ca[j] = cb[j]
            /\ IF i > Len(ca) THEN i <= Len(cb)
               ELSE i <= Len(cb) /\ ByteLess(ca[i], cb[i])

\* Ord for dyn Key: lexicographic comparison of the raw bytes.
KeyLess(a, b) ==
    \E i \in 1..(Min(Len(a), Len(b)) + 1) :
        /\ \A j \in 1..(i - 1) : a[j] = b[j]
        /\ IF i > Len(a) THEN i <= Len(b)
           ELSE i <= Len(b) /\ a[i] < b[i]

\* Iterator::skip_while / take_while over a sequence, as index arithmetic.
SkipWhile(P(_), s) ==
    LET stop == {i \in 1..Len(s) : ~P(s[i])}
    IN  IF stop = {} THEN <<>>
        ELSE Slice(s, CHOOSE i \in stop : \A j \in stop : i <= j, Len(s))

TakeWhile(P(_), s) ==
    LET stop == {i \in 1..Len(s) : ~P(s[i])}
    IN  IF stop = {} THEN s
        ELSE Slice(s, 1, (CHOOSE i \in stop : \A j \in stop : i <= j) - 1)

\* Keys of a BTreeMap<util::PathBuf, _> in iteration order.
RECURSIVE SortKeys(_)
SortKeys(S) ==
    IF S = {} THEN <<>>
    ELSE LET m == CHOOSE x \in S : \A y \in S \ {x} : KeyLess(x, y)
         IN  <<m>> \o SortKeys(S \ {m})

\* BTreeMap::remove on a function.
MapRemove(m, ks) == [k \in DOMAIN m \ ks |-> m[k]]

\* BTreeMap::insert on a function.
MapInsert(m, k, v) == [x \in DOMAIN m \cup {k} |-> IF x = k THEN v ELSE m[x]]

EmptyMap == [x \in {} |-> 0]

----------------------------------------------------------------------------
(* Metadata and Mode: src/meta.rs *)

Modes == {"Directory", "Regular", "Executable"}

Mode_as_u32(mode) ==
    CASE mode = "Directory"  -> 16384      \* 0o040000
      [] mode = "Regular"    -> 33188      \* 0o100644
      [] mode = "Executable" -> 33261      \* 0o100755

\* TryFrom<u32> for Mode
Mode_try_from(n) ==
    IF n = 16384 THEN Ok("Directory")
    ELSE IF n = 33188 THEN Ok("Regular")
    ELSE IF n = 33261 THEN Ok("Executable")
    ELSE Err("InvalidData")

Metadata_len == 40

Metadata_write(m) ==
    BE32(m.ctime) \o BE32(m.ctime_nsec) \o BE32(m.mtime) \o BE32(m.mtime_nsec)
    \o BE32(m.dev) \o BE32(m.ino) \o BE32(Mode_as_u32(m.mode))
    \o BE32(m.uid) \o BE32(m.gid) \o BE32(m.size)

\* Metadata::read from b at cursor position pos (1-based).  The fields are read
\* in order, so a short input before the mode field is an EOF error, a bad
\* mode is InvalidData, and a short input after it is an EOF error again.
Metadata_read(b, pos) ==
    LET avail == Len(b) - pos + 1
    IN  IF avail < 28 THEN Err("UnexpectedEof")
        ELSE LET mode == Mode_try_from(ReadBE32(b, pos + 24))
             IN  IF ~mode.ok THEN Err("InvalidData")
                 ELSE IF avail < 40 THEN Err("UnexpectedEof")
                 ELSE Ok([ctime      |-> ReadBE32(b, pos),
                          ctime_nsec |-> ReadBE32(b, pos + 4),
                          mtime      |-> ReadBE32(b, pos + 8),
                          mtime_nsec |-> ReadBE32(b, pos + 12),
                          dev        |-> ReadBE32(b, pos + 16),
                          ino        |-> ReadBE32(b, pos + 20),
                          mode       |-> mode.val,
                          uid        |-> ReadBE32(b, pos + 28),
                          gid        |-> ReadBE32(b, pos + 32),
                          size       |-> ReadBE32(b, pos + 36)])

----------------------------------------------------------------------------
(* Index entries: src/index.rs, struct Entry *)

\* Entry::new
Entry_new(metadata, id, path) ==
    [metadata |-> metadata, id |-> id, flag |-> Min(4095, Len(path)), path |-> path]

\* Entry::len
Entry_len(e) == Metadata_len + Len(e.id) + 2 + Len(e.path)

\* Entry::padding as `(8 - len % 8) % 8`: no padding when the length is
\* already a multiple of 8.
Entry_padding_NoneWhenAligned(e) == (8 - (Entry_len(e) % 8)) % 8

\* Entry::padding: 0b1000 - (len & 0b0111)
Entry_padding(e) == 8 - (Entry_len(e) % 8)

\* Entry::write
Entry_write(e) ==
    Metadata_write(e.metadata) \o e.id \o BE16(e.flag) \o e.path
    \o Zeros(Entry_padding(e))

\* The path loop of Entry::read: `take(2)` once, then `take(8)` while the
\* buffer does not end in NUL.  At end of input `read_to_end` adds nothing, so
\* the loop never ends: the outcome is "Hang".
RECURSIVE Entry_read_path(_, _, _)
Entry_read_path(b, pos, acc) ==
    IF acc # <<>> /\ acc[Len(acc)] = 0 THEN Ok([buffer |-> acc, pos |-> pos])
    ELSE IF pos > Len(b) THEN Err("Hang")
    ELSE LET hi == Min(pos + 7, Len(b))
         IN  Entry_read_path(b, hi + 1, acc \o SubSeq(b, pos, hi))

\* `while buffer.ends_with(&[0]) { buffer.pop(); }`
RECURSIVE PopZeros(_)
PopZeros(s) ==
    IF s # <<>> /\ s[Len(s)] = 0 THEN PopZeros(SubSeq(s, 1, Len(s) - 1)) ELSE s

\* Entry::read from b at cursor position pos; yields the entry and the new
\* cursor position.
Entry_read(b, pos) ==
    LET m == Metadata_read(b, pos)
    IN  IF ~m.ok THEN m
        ELSE IF Len(b) - (pos + 40) + 1 < 22 THEN Err("UnexpectedEof")
        ELSE LET id    == SubSeq(b, pos + 40, pos + 59)
                 flag  == ReadBE16(b, pos + 60)
                 hi    == Min(pos + 63, Len(b))
                 first == Slice(b, pos + 62, hi)
                 rest  == Entry_read_path(b, pos + 62 + Len(first), first)
             IN  IF ~rest.ok THEN rest
                 ELSE Ok([entry |-> [metadata |-> m.val, id |-> id, flag |-> flag,
                                     path |-> PopZeros(rest.val.buffer)],
                          pos   |-> rest.val.pos])

----------------------------------------------------------------------------
(* Index: src/index.rs, struct Index *)

DIRC == <<68, 73, 82, 67>>

\* Index::files: BTreeMap::values, in key order.
Index_files(entries) ==
    LET ks == SortKeys(DOMAIN entries) IN [i \in 1..Len(ks) |-> entries[ks[i]]]

\* The loop of Index::read over `count` entries.
RECURSIVE Index_read_entries(_, _, _, _)
Index_read_entries(b, pos, count, acc) ==
    IF count = 0 THEN Ok(acc)
    ELSE LET r == Entry_read(b, pos)
         IN  IF ~r.ok THEN r
             ELSE Index_read_entries(b, r.val.pos, count - 1,
                                     MapInsert(acc, r.val.entry.path, r.val.entry))

\* Index::read.  Slicing a buffer shorter than the header panics.
Index_read(buffer) ==
    IF Len(buffer) < 4 THEN Err("Panic")
    ELSE IF SubSeq(buffer, 1, 4) # DIRC THEN Err("Corrupt")
    ELSE IF Len(buffer) < 8 THEN Err("Panic")
    ELSE IF ReadBE32(buffer, 5) # 2 THEN Err("Corrupt")
    ELSE IF Len(buffer) < 12 THEN Err("Panic")
    ELSE LET r == Index_read_entries(Slice(buffer, 13, Len(buffer)), 1,
                                     ReadBE32(buffer, 9), EmptyMap)
         IN  IF r.ok THEN r
             ELSE IF r.err \in {"Hang", "Panic"} THEN r
             ELSE Err("Corrupt")

\* The body of Index::lock once `<path>.lock` is held: `disk` is the target's
\* content (None when the target does not exist).  Yields the entry map, or
\* the way opening ends otherwise.
Index_lock_read(disk) ==
    IF ~IsSome(disk) THEN Ok(EmptyMap)
    ELSE LET buffer == disk[1]
             r      == Index_read(buffer)
         IN  IF ~r.ok THEN r
             ELSE IF Len(buffer) < 20 THEN Err("Panic")
             ELSE IF Sha1(SubSeq(buffer, 1, Len(buffer) - 20))
                     # SubSeq(buffer, Len(buffer) - 19, Len(buffer))
                  THEN Err("Panic")
             ELSE r

\* What Index::commit writes through the checksum wrapper: header, entries in
\* key order, then the digest of everything before it.
Index_bytes(entries) ==
    LET es   == Index_files(entries)
        body == DIRC \o BE32(2) \o BE32(Len(es))
                \o Flatten([i \in 1..Len(es) |-> Entry_write(es[i])])
    IN  body \o Sha1(body)

\* Index::descendants without its `skip_while`: the run of descendants is
\* taken right after `path`, so a sibling such as "a-" ends it at once.
Index_descendants_NoSkip(entries, path) ==
    LET IsBelow(s) == PathStartsWith(s, path)
        range      == SortKeys({k \in DOMAIN entries : KeyLess(path, k)})
    IN  TakeWhile(IsBelow, range)

\* Index::descendants as a sequence of paths, in key order.
Index_descendants(entries, path) ==
    LET IsSibling(s) == BytesStartsWith(s, path) /\ ~PathStartsWith(s, path)
        IsBelow(s)   == PathStartsWith(s, path)
        range        == SortKeys({k \in DOMAIN entries : KeyLess(path, k)})
    IN  TakeWhile(IsBelow, SkipWhile(IsSibling, range))

\* The ancestors Index::insert looks at: `ancestors().skip(1)` up to, and
\* excluding, the empty path.
Index_insert_ancestors(path) ==
    LET NotRoot(a) == a # <<>>
        as == Ancestors(path)
    IN  TakeWhile(NotRoot, Slice(as, 2, Len(as)))

Range(s) == {s[i] : i \in 1..Len(s)}

\* Index::insert without its first pass: the entries at the ancestors of
\* `path` stay in the map.
Index_insert_KeepAncestors(entries, changed, metadata, id, path) ==
    LET entry == Entry_new(metadata, id, path)
        e2    == MapRemove(entries, Range(Index_descendants(entries, path)))
    IN  [entries |-> MapInsert(e2, path, entry),
         changed |-> changed \/ (path \notin DOMAIN e2)]

\* Index::insert: the new entry map and the new `changed` flag.
Index_insert(entries, changed, metadata, id, path) ==
    LET entry == Entry_new(metadata, id, path)
        e1    == MapRemove(entries, Range(Index_insert_ancestors(path)))
        e2    == MapRemove(e1, Range(Index_descendants(e1, path)))
    IN  [entries |-> MapInsert(e2, path, entry),
         changed |-> changed \/ (path \notin DOMAIN e2)]

----------------------------------------------------------------------------
(* Object ids: src/object.rs, struct Id *)

\* Id::hash
Id_hash(bytes) == Sha1(bytes)

\* HEX_ENCODE
HexEncodeDigit(n) == IF n < 10 THEN 48 + n ELSE 87 + n

\* HEX_DECODE: 255 marks a byte that is not a hexadecimal digit.
HexDecodeDigit(c) ==
    IF c >= 48 /\ c <= 57 THEN c - 48
    ELSE IF c >= 65 /\ c <= 70 THEN c - 55
    ELSE IF c >= 97 /\ c <= 102 THEN c - 87
    ELSE 255

\* Id::write_hex and Display for Id: two lowercase digits per byte.
Id_write_hex(id) ==
    [i \in 1..(2 * Len(id)) |->
        IF i % 2 = 1 THEN HexEncodeDigit(id[(i + 1) \div 2] \div 16)
        ELSE HexEncodeDigit(id[i \div 2] % 16)]

\* Id::read_hex at cursor position pos.
Id_read_hex(b, pos) ==
    IF Len(b) - pos + 1 < 40 THEN Err("UnexpectedEof")
    ELSE IF \E i \in pos..(pos + 39) : HexDecodeDigit(b[i]) = 255
         THEN Err("InvalidData")
    ELSE Ok([val |-> [i \in 1..20 |->
                         HexDecodeDigit(b[pos + 2 * i - 2]) * 16
                         + HexDecodeDigit(b[pos + 2 * i - 1])],
             pos |-> pos + 40])

\* Id::to_path_buf: `<hex[0:2]>/<hex[2:40]>`.
Id_to_path_buf(id) ==
    LET hex == Id_write_hex(id)
    IN  SubSeq(hex, 1, 2) \o <<SLASH>> \o SubSeq(hex, 3, Len(hex))

----------------------------------------------------------------------------
(* Text helpers used by the object encodings *)

SP == 32
LF == 10
LT == 60
GT == 62

\* `write!(writer, "{}", n)` for a non-negative integer.
RECURSIVE Dec(_)
Dec(n) == IF n < 10 THEN <<48 + n>> ELSE Dec(n \div 10) \o <<48 + (n % 10)>>

IsDigit(c) == c >= 48 /\ c <= 57

\* Value of a non-empty string of decimal digits.
RECURSIVE DecValue(_)
DecValue(ds) ==
    IF Len(ds) = 1 THEN ds[1] - 48
    ELSE DecValue(SubSeq(ds, 1, Len(ds) - 1)) * 10 + (ds[Len(ds)] - 48)

\* BufRead::read_until(delim): the bytes up to and including the first delim
\* at or after pos, or up to the end of input.
ReadUntil(b, pos, delim) ==
    LET hits == {i \in pos..Len(b) : b[i] = delim}
        end  == IF hits = {} THEN Len(b)
                ELSE CHOOSE i \in hits : \A j \in hits : i <= j
    IN  [data |-> Slice(b, pos, end), pos |-> end + 1]

\* `%z`: sign and HHMM of an offset given in minutes east of UTC.
FormatOffset(minutes) ==
    LET m == IF minutes < 0 THEN -minutes ELSE minutes
        h == m \div 60
    IN  <<IF minutes < 0 THEN 45 ELSE 43,
          48 + (h \div 10), 48 + (h % 10),
          48 + ((m % 60) \div 10), 48 + ((m % 60) % 10)>>

\* `%s`: the seconds since the epoch, in decimal, with `-` before 1970.
FormatSecs(secs) == IF secs < 0 THEN <<45>> \o Dec(-secs) ELSE Dec(secs)

\* chrono's `%s %z` formatting of an instant (seconds) at an offset.
FormatTime(t) == FormatSecs(t.secs) \o <<SP>> \o FormatOffset(t.offset)

\* chrono::DateTime::parse_from_str(_, "%s %z")
ParseTime(b) ==
    LET cut == ReadUntil(b, 1, SP)
        ds  == Slice(cut.data, 1, Len(cut.data) - 1)
        z   == Slice(b, cut.pos, Len(b))
    IN  IF \/ ds = <<>>
           \/ \E i \in 1..Len(ds) : ~IsDigit(ds[i])
           \/ Len(z) # 5
           \/ z[1] \notin {43, 45}
           \/ \E i \in 2..5 : ~IsDigit(z[i])
        THEN Err("InvalidData")
        ELSE LET m == ((z[2] - 48) * 10 + (z[3] - 48)) * 60
                      + (z[4] - 48) * 10 + (z[5] - 48)
             IN  Ok([secs |-> DecValue(ds), offset |-> IF z[1] = 45 THEN -m ELSE m])

----------------------------------------------------------------------------
(* Tree objects: src/object/tree.rs *)

BLOB   == <<98, 108, 111, 98>>
TREE   == <<116, 114, 101, 101>>
COMMIT == <<99, 111, 109, 109, 105, 116>>

\* Mode::as_str as bytes: "40000", "100644", "100755".
Mode_as_str(mode) ==
    CASE mode = "Directory"  -> <<52, 48, 48, 48, 48>>
      [] mode = "Regular"    -> <<49, 48, 48, 54, 52, 52>>
      [] mode = "Executable" -> <<49, 48, 48, 55, 53, 53>>

\* TryFrom<&str> for Mode: the inverse of Mode::as_str.
Mode_try_from_str(s) ==
    IF \E m \in Modes : Mode_as_str(m) = s
    THEN Ok(CHOOSE m \in Modes : Mode_as_str(m) = s)
    ELSE Err("Panic")

\* TreeNode::write
TreeNode_write(node) ==
    Mode_as_str(node.mode) \o <<SP>> \o node.path \o <<0>> \o node.id

\* TreeNode::len
TreeNode_len(node) == Len(Mode_as_str(node.mode)) + 1 + Len(node.path) + 1 + Len(node.id)

\* TreeNode::read at cursor position pos: Ok(None) at end of input.
TreeNode_read(b, pos) ==
    LET m == ReadUntil(b, pos, SP)
    IN  IF m.data = <<>> THEN Ok([node |-> None, pos |-> pos])
        ELSE IF m.data[Len(m.data)] # SP THEN Err("Panic")
        ELSE LET mode == Mode_try_from_str(SubSeq(m.data, 1, Len(m.data) - 1))
                 p    == ReadUntil(b, m.pos, 0)
             IN  IF ~mode.ok THEN mode
                 ELSE IF p.data = <<>> \/ p.data[Len(p.data)] # 0 THEN Err("Panic")
                 ELSE IF Len(b) - p.pos + 1 < 20 THEN Err("UnexpectedEof")
                 ELSE Ok([node |-> Some([path |-> SubSeq(p.data, 1, Len(p.data) - 1),
                                         id   |-> SubSeq(b, p.pos, p.pos + 19),
                                         mode |-> mode.val]),
                          pos  |-> p.pos + 20])

\* Tree::write
Tree_write(nodes) == Flatten([i \in 1..Len(nodes) |-> TreeNode_write(nodes[i])])

\* Tree::len
RECURSIVE Tree_len(_)
Tree_len(nodes) ==
    IF nodes = <<>> THEN 0 ELSE TreeNode_len(Head(nodes)) + Tree_len(Tail(nodes))

\* Tree::read: nodes until TreeNode::read yields None.
RECURSIVE Tree_read_from(_, _, _)
Tree_read_from(b, pos, acc) ==
    LET r == TreeNode_read(b, pos)
    IN  IF ~r.ok THEN r
        ELSE IF r.val.node = None THEN Ok(acc)
        ELSE Tree_read_from(b, r.val.pos, Append(acc, r.val.node[1]))

Tree_read(b) == Tree_read_from(b, 1, <<>>)

----------------------------------------------------------------------------
(* Commit objects: src/object/commit.rs *)

TAG_TREE      == <<116, 114, 101, 101, SP>>                             \* "tree "
TAG_PARENT    == <<112, 97, 114, 101, 110, 116, SP>>                    \* "parent "
TAG_AUTHOR    == <<97, 117, 116, 104, 111, 114, SP>>                    \* "author "
TAG_COMMITTER == <<99, 111, 109, 109, 105, 116, 116, 101, 114, SP>>     \* "committer "

\* Author::write: `<name> <<email>> <seconds> <offset>`.
Author_write(a) ==
    a.name \o <<SP, LT>> \o a.email \o <<GT, SP>> \o FormatTime(a.time)

\* Author::len with the timestamp counted as the ten digits it has today.
Author_len_TenDigits(a) == Len(a.name) + 2 + Len(a.email) + 2 + 10 + 1 + 5

\* Author::len: the timestamp is formatted into a buffer to count its bytes.
Author_len(a) ==
    Len(a.name) + 2 + Len(a.email) + 2 + Len(FormatSecs(a.time.secs)) + 1 + 5

\* Author::read at cursor position pos; tz is the reader's local offset, which
\* `with_timezone(&chrono::Local)` gives to the parsed instant.
Author_read(b, pos, tz) ==
    LET n == ReadUntil(b, pos, LT)
    IN  IF Len(n.data) < 2
           \/ n.data[Len(n.data)] # GT
           \/ n.data[Len(n.data) - 1] # SP
        THEN Err("Panic")
        ELSE LET e == ReadUntil(b, n.pos, SP)
             IN  IF Len(e.data) < 2
                    \/ e.data[Len(e.data)] # SP
                    \/ e.data[Len(e.data) - 1] # GT
                 THEN Err("Panic")
                 ELSE LET t == ReadUntil(b, e.pos, SP)
                      IN  IF Len(b) - t.pos + 1 < 5 THEN Err("UnexpectedEof")
                          ELSE LET time == ParseTime(t.data \o SubSeq(b, t.pos, t.pos + 4))
                               IN  IF ~time.ok THEN time
                                   ELSE Ok([author |->
                                              [name  |-> SubSeq(n.data, 1, Len(n.data) - 2),
                                               email |-> SubSeq(e.data, 1, Len(e.data) - 2),
                                               time  |-> [secs   |-> time.val.secs,
                                                          offset |-> tz]],
                                            pos |-> t.pos + 5])

\* Person::write (src/object/person.rs): the same bytes as Author::write.
Person_write(p) ==
    p.name \o <<SP, LT>> \o p.email \o <<GT, SP>> \o FormatTime(p.time)

\* Person::read at cursor position pos: as Author::read, but the name must
\* end in " <".  tz is the reader's local offset, which
\* `with_timezone(&chrono::Local)` gives to the parsed instant.
Person_read(b, pos, tz) ==
    LET n == ReadUntil(b, pos, LT)
    IN  IF Len(n.data) < 2
           \/ n.data[Len(n.data)] # LT
           \/ n.data[Len(n.data) - 1] # SP
        THEN Err("Panic")
        ELSE LET e == ReadUntil(b, n.pos, SP)
             IN  IF Len(e.data) < 2
                    \/ e.data[Len(e.data)] # SP
                    \/ e.data[Len(e.data) - 1] # GT
                 THEN Err("Panic")
                 ELSE LET t == ReadUntil(b, e.pos, SP)
                      IN  IF Len(b) - t.pos + 1 < 5 THEN Err("UnexpectedEof")
                          ELSE LET time == ParseTime(t.data \o SubSeq(b, t.pos, t.pos + 4))
                               IN  IF ~time.ok THEN time
                                   ELSE Ok([person |->
                                              [name  |-> SubSeq(n.data, 1, Len(n.data) - 2),
                                               email |-> SubSeq(e.data, 1, Len(e.data) - 2),
                                               time  |-> [secs   |-> time.val.secs,
                                                          offset |-> tz]],
                                            pos |-> t.pos + 5])

\* Commit::write
Commit_write(c) ==
    TAG_TREE \o Id_write_hex(c.tree)
    \o (IF IsSome(c.parent) THEN <<LF>> \o TAG_PARENT \o Id_write_hex(c.parent[1])
        ELSE <<>>)
    \o <<LF>> \o TAG_AUTHOR \o Author_write(c.author)
    \o <<LF>> \o TAG_COMMITTER \o Author_write(c.author)
    \o <<LF, LF>> \o c.message

\* Commit::len
Commit_len(c) ==
    5 + Len(c.tree) * 2
    + (IF IsSome(c.parent) THEN 8 + Len(c.parent[1]) * 2 ELSE 0)
    + 8 + Author_len(c.author) + 11 + Author_len(c.author) + 2 + Len(c.message)

\* `assert_eq!(reader.read_u8()?, byte)` at cursor position pos.
ExpectByte(b, pos, byte) ==
    IF pos > Len(b) THEN Err("UnexpectedEof")
    ELSE IF b[pos] # byte THEN Err("Panic")
    ELSE Ok(pos + 1)

\* The part of Commit::read after the author tag has been read: the author,
\* the committer (parsed and dropped) and the message.
Commit_read_people(b, pos, tz, tree, parent) ==
    LET a  == Author_read(b, pos, tz)
    IN  IF ~a.ok THEN a
        ELSE LET n1 == ExpectByte(b, a.val.pos, LF)
             IN  IF ~n1.ok THEN n1
                 ELSE LET tag == ReadUntil(b, n1.val, SP)
                      IN  IF tag.data # TAG_COMMITTER THEN Err("Panic")
                          ELSE LET c == Author_read(b, tag.pos, tz)
                               IN  IF ~c.ok THEN c
                                   ELSE LET n2 == ExpectByte(b, c.val.pos, LF)
                                            n3 == IF n2.ok THEN ExpectByte(b, n2.val, LF)
                                                  ELSE n2
                                        IN  IF ~n3.ok THEN n3
                                            ELSE Ok([type    |-> "commit",
                                                     tree    |-> tree,
                                                     parent  |-> parent,
                                                     author  |-> a.val.author,
                                                     message |-> Slice(b, n3.val, Len(b))])

\* Commit::read on the bytes after the object header.  It starts by reading
\* 40 hexadecimal characters: it does not consume a "tree " tag.
Commit_read(b, tz) ==
    LET tree == Id_read_hex(b, 1)
    IN  IF ~tree.ok THEN tree
        ELSE LET n1 == ExpectByte(b, tree.val.pos, LF)
             IN  IF ~n1.ok THEN n1
                 ELSE LET tag == ReadUntil(b, n1.val, SP)
                      IN  IF tag.data = TAG_PARENT
                          THEN LET parent == Id_read_hex(b, tag.pos)
                                   n2     == IF parent.ok
                                             THEN ExpectByte(b, parent.val.pos, LF)
                                             ELSE parent
                               IN  IF ~n2.ok THEN n2
                                   ELSE LET tag2 == ReadUntil(b, n2.val, SP)
                                        IN  IF tag2.data # TAG_AUTHOR THEN Err("Panic")
                                            ELSE Commit_read_people(b, tag2.pos, tz,
                                                     tree.val.val, Some(parent.val.val))
                          ELSE IF tag.data # TAG_AUTHOR THEN Err("Panic")
                          ELSE Commit_read_people(b, tag.pos, tz, tree.val.val, None)

----------------------------------------------------------------------------
(* Objects and the object database: src/object.rs, src/database.rs *)

\* Blob::len
Blob_len(blob) == Len(blob.data)

\* Blob::write: the body of a blob is its raw bytes.
Blob_write(blob) == blob.data

\* Blob::read: the rest of the input.
Blob_read(b) == Ok([type |-> "blob", data |-> b])

\* Object::type
Object_type(o) ==
    CASE o.type = "blob"   -> BLOB
      [] o.type = "tree"   -> TREE
      [] o.type = "commit" -> COMMIT

\* Object::len
Object_len(o) ==
    CASE o.type = "blob"   -> Blob_len(o)
      [] o.type = "tree"   -> Tree_len(o.nodes)
      [] o.type = "commit" -> Commit_len(o)

\* Object::write / Object::to_bytes: `<type> <length>\0<body>`.
Object_to_bytes(o) ==
    Object_type(o) \o <<SP>> \o Dec(Object_len(o)) \o <<0>>
    \o (CASE o.type = "blob"   -> Blob_write(o)
          [] o.type = "tree"   -> Tree_write(o.nodes)
          [] o.type = "commit" -> Commit_write(o))

\* Object::read: consume `<type> <length>\0`, then dispatch on the type.
Object_read(b, tz) ==
    LET t == ReadUntil(b, 1, SP)
        l == ReadUntil(b, t.pos, 0)
    IN  IF t.data = <<>> \/ t.data[Len(t.data)] # SP THEN Err("Corrupt")
        ELSE IF Len(l.data) < 2 \/ l.data[Len(l.data)] # 0
                \/ \E i \in 1..(Len(l.data) - 1) : ~IsDigit(l.data[i])
             THEN Err("Corrupt")
        ELSE LET type == SubSeq(t.data, 1, Len(t.data) - 1)
                 body == Slice(b, l.pos, Len(b))
             IN  IF type = BLOB THEN Blob_read(body)
                 ELSE IF type = TREE
                      THEN LET r == Tree_read(body)
                           IN  IF r.ok THEN Ok([type |-> "tree", nodes |-> r.val]) ELSE r
                 ELSE IF type = COMMIT THEN Commit_read(body, tz)
                 ELSE Err("Corrupt")

\* Stand-in for flate2's zlib stream: the two header bytes, the data, and a
\* four-byte check value of the data.
Zlib_encode(b) == <<120, 156>> \o b \o BE32(Sha1Acc(b, 1, Len(b)))

Zlib_decode(f) ==
    IF Len(f) < 6 \/ SubSeq(f, 1, 2) # <<120, 156>> THEN Err("Corrupt")
    ELSE LET data == Slice(f, 3, Len(f) - 4)
         IN  IF BE32(Sha1Acc(data, 1, Len(data))) # SubSeq(f, Len(f) - 3, Len(f))
             THEN Err("Corrupt")
             ELSE Ok(data)

\* Database::store, the pure part: the id, the final path below the
\* database root and the bytes that reach the file.
Database_store_plan(o) ==
    LET buffer == Object_to_bytes(o)
        id     == Id_hash(buffer)
    IN  [id |-> id, path |-> Id_to_path_buf(id), bytes |-> Zlib_encode(buffer)]

\* Database::load on the content of the object file (None: no such file).
Database_load(file, tz) ==
    IF ~IsSome(file) THEN Err("NotFound")
    ELSE LET z == Zlib_decode(file[1])
         IN  IF ~z.ok THEN z ELSE Object_read(z.val, tz)

----------------------------------------------------------------------------
(* SpecObject: store one object, then load it *)

MaxBlobLen   == 2    \* bytes per input blob
MaxTreeNodes == 2    \* entries per input tree

SeqsUpTo(S, n) == UNION {[1..k -> S] : k \in 0..n}

InputBlobs == {[type |-> "blob", data |-> d] : d \in SeqsUpTo({0, LF, 97}, MaxBlobLen)}

\* Tree entries named "a" and "a b", as files and as directories.
InputTreeNodes ==
    {[path |-> n, id |-> Sha1(<<98, 1>>), mode |-> m] :
        n \in {<<97>>, <<97, SP, 98>>}, m \in {"Regular", "Directory"}}

InputTrees == {[type |-> "tree", nodes |-> ns] : ns \in SeqsUpTo(InputTreeNodes, MaxTreeNodes)}

\* Local offsets, in minutes east of UTC, of the process that runs.
TimeZones == {0, -330}

\* Commits as Commit::run builds them: the author's time carries the local
\* offset of the process.  The author's name and email may be empty, and
\* the clock may stand before 1970, at 1970 or in 2020.
InputCommits(tz) ==
    {[type    |-> "commit",
      tree    |-> Sha1(<<116, 1>>),
      parent  |-> p,
      author  |-> [name |-> n, email |-> e,
                   time |-> [secs |-> s, offset |-> tz]],
      message |-> m] :
        p \in {None, Some(Sha1(<<99, 1>>))},
        n \in {<<>>, <<65, SP, 66>>},
        e \in {<<>>, <<97, 64, 98>>},
        s \in {-1, 0, 1600000000},
        m \in {<<>>, <<109, LF>>, <<109, LF, LF, 110>>}}

IdleObject ==
    objTz = 0 /\ objIn = None /\ objFile = None /\ objOut = None /\ objReload = None

InitObject ==
    /\ IdleIndex
    /\ IdleRepo
    /\ IdleWalk
    /\ IdleStatus
    /\ IdleDiff
    /\ IdleWs
    /\ IdleChanges
    /\ IdleChecksum
    /\ IdleEntry
    /\ IdleHistory
    /\ IdleMeta
    /\ objTz \in TimeZones
    /\ objIn \in InputBlobs \cup InputTrees \cup InputCommits(objTz)
    /\ objFile = None
    /\ objOut = None
    /\ objReload = None

\* Database::store of objIn into an empty database.
ObjStore ==
    /\ objFile = None
    /\ objFile' = Some(Database_store_plan(objIn).bytes)
    /\ UNCHANGED <<objTz, objIn, objOut, objReload, objOthers>>

\* Database::load of the id that store returned.
ObjLoad ==
    /\ objFile # None
    /\ objOut = None
    /\ objOut' = Some(Database_load(objFile, objTz))
    /\ UNCHANGED <<objTz, objIn, objFile, objReload, objOthers>>

\* A process whose local offset is tz reads the author line of the stored
\* commit back with Person::read.
ObjReload ==
    /\ objFile # None
    /\ objReload = None
    /\ objIn.type = "commit"
    /\ \E tz \in TimeZones :
         objReload' = Some([tz |-> tz,
                            person |-> Person_read(Person_write(objIn.author), 1, tz)])
    /\ UNCHANGED <<objTz, objIn, objFile, objOut, objOthers>>

NextObject == ObjStore \/ ObjLoad \/ ObjReload

SpecObject == InitObject /\ [][NextObject]_vars

\* C11 (as claimed): the id and the bytes of store(o) depend on o's logical
\* content only: a commit whose author has been read back from the stored
\* bytes, by a process with any local timezone, is stored under the same id
\* with the same bytes.
C11_IdStability ==
    (IsSome(objReload) /\ objReload[1].person.ok) =>
        Database_store_plan([objIn EXCEPT !.author = objReload[1].person.val.person])
            = Database_store_plan(objIn)

\* C8 (as claimed): for every object o, blob, tree or commit,
\* load(store(o)) returns an object equal to o.
C8_ObjectRoundTrip == IsSome(objOut) => objOut[1] = Ok(objIn)

----------------------------------------------------------------------------
(* SpecIndex: one process opens the index, inserts, commits and reopens *)

MaxDepth   == 2     \* components per input path
MaxInserts == 3     \* Index::insert calls per behaviour
MaxOpens   == 3     \* Index::lock calls per behaviour

\* Component names "a", "a-" and "ab": `-` (45) sorts before `/` and `b`
\* (98) after it, so "a-" and "ab" are the siblings on either side of the
\* descendants of "a" in key order.
ComponentNames == {<<97>>, <<97, 45>>, <<97, 98>>}

\* The input paths of depth d: d - 1 directories named "a", then one of the
\* component names.
RECURSIVE PathsOfDepth(_)
PathsOfDepth(d) ==
    IF d = 1 THEN ComponentNames
    ELSE {<<97, SLASH>> \o p : p \in PathsOfDepth(d - 1)}

InputPaths == UNION {PathsOfDepth(d) : d \in 1..MaxDepth}

\* Two states of a work-tree file: its stat snapshot and the id of its blob.
InputFiles ==
    {[metadata |-> [ctime |-> 1, ctime_nsec |-> 0, mtime |-> 1, mtime_nsec |-> 0,
                    dev |-> 1, ino |-> 2, mode |-> "Regular", uid |-> 1000,
                    gid |-> 1000, size |-> 1],
      id |-> Sha1(<<98, 1>>)],
     [metadata |-> [ctime |-> 2, ctime_nsec |-> 5, mtime |-> 2, mtime_nsec |-> 5,
                    dev |-> 1, ino |-> 2, mode |-> "Executable", uid |-> 1000,
                    gid |-> 1000, size |-> 300],
      id |-> Sha1(<<98, 2>>)]}

\* SpecIndex leaves the other specifications' variables at rest.
InitIndex == IdleIndex /\ IdleObject /\ IdleRepo /\ IdleWalk /\ IdleStatus /\ IdleDiff /\ IdleWs /\ IdleChanges /\ IdleChecksum /\ IdleEntry /\ IdleHistory /\ IdleMeta

\* Index::lock: take `.git/index.lock`, read the target if it exists.  When
\* reading fails the lock is dropped, which removes the lock file.
IndexLock ==
    /\ idxPc = "closed"
    /\ idxOpens < MaxOpens
    /\ idxOpens' = idxOpens + 1
    /\ idxLast' = None
    /\ UNCHANGED <<idxDisk, idxAtCommit, idxInserts, idxOthers>>
    /\ ~idxLockFile
    /\ LET r == Index_lock_read(idxDisk)
       IN  IF r.ok
           THEN /\ idxPc' = "open"
                /\ idxLockFile' = TRUE
                /\ idxEntries' = r.val
                /\ idxChanged' = FALSE
                /\ idxFresh' = TRUE
           ELSE /\ idxPc' = "failed"
                /\ idxLockFile' = FALSE
                /\ UNCHANGED <<idxEntries, idxChanged, idxFresh>>

\* Index::insert
IndexInsert ==
    /\ idxPc = "open"
    /\ idxInserts < MaxInserts
    /\ \E file \in InputFiles, path \in InputPaths :
         LET r == Index_insert(idxEntries, idxChanged, file.metadata, file.id, path)
         IN  /\ idxEntries' = r.entries
             /\ idxChanged' = r.changed
             /\ idxLast' = Some([path |-> path, before |-> idxEntries,
                                 metadata |-> file.metadata, id |-> file.id])
    /\ idxInserts' = idxInserts + 1
    /\ idxFresh' = FALSE
    /\ idxAtCommit' = None
    /\ UNCHANGED <<idxDisk, idxLockFile, idxPc, idxOpens, idxOthers>>

\* Index::commit: nothing is written when `changed` is false and the dropped
\* lock removes `.git/index.lock`; otherwise the lock file receives the bytes
\* and is renamed over `.git/index`.
IndexCommit ==
    /\ idxPc = "open"
    /\ idxPc' = "closed"
    /\ idxLockFile' = FALSE
    /\ idxDisk' = IF idxChanged THEN Some(Index_bytes(idxEntries)) ELSE idxDisk
    /\ idxAtCommit' = Some(idxEntries)
    /\ idxEntries' = EmptyMap
    /\ idxChanged' = FALSE
    /\ idxFresh' = FALSE
    /\ idxLast' = None
    /\ UNCHANGED <<idxInserts, idxOpens, idxOthers>>

NextIndex == IndexLock \/ IndexInsert \/ IndexCommit

SpecIndex == InitIndex /\ [][NextIndex]_vars

----------------------------------------------------------------------------
(* Claims about the index *)

\* p is a proper prefix of q as a `/`-delimited path.
ProperPathPrefix(p, q) == BytesStartsWith(q, p \o <<SLASH>>)

\* C2: after any sequence of Index::insert calls no entry's path is a proper
\* prefix, as a `/`-delimited path, of another entry's path.
C2_NoPrefixCollision ==
    \A p \in DOMAIN idxEntries, q \in DOMAIN idxEntries : ~ProperPathPrefix(p, q)

\* C2 witness: an insert has just removed a conflicting entry while a sibling
\* that shares the byte prefix stayed in the index.
C2_Witness ==
    /\ IsSome(idxLast)
    /\ \E gone \in DOMAIN idxLast[1].before \ DOMAIN idxEntries :
         gone # idxLast[1].path
    /\ \E kept \in DOMAIN idxEntries :
         /\ kept # idxLast[1].path
         /\ BytesStartsWith(kept, idxLast[1].path)

\* C3 (as claimed): once Index::commit has returned Ok, a fresh open of the
\* file succeeds and iterates exactly the entries that were in memory at
\* commit time, in the same order.
C3_RoundTrip ==
    IsSome(idxAtCommit) =>
        /\ idxPc # "failed"
        /\ (idxPc = "open" /\ idxFresh) =>
               Index_files(idxEntries) = Index_files(idxAtCommit[1])

----------------------------------------------------------------------------
(* The atomic file layer: src/file.rs, and the paths of src/repository.rs *)

\* `.git/index`, `.git/HEAD` and `.git/objects`, relative to `.git`.
IndexPath == <<105, 110, 100, 101, 120>>
HeadPath == <<72, 69, 65, 68>>
ObjectsRoot == <<111, 98, 106, 101, 99, 116, 115>>

LOCK_SUFFIX == <<46, 108, 111, 99, 107>>
TMP_PREFIX == <<116, 109, 112, 95, 111, 98, 106, 95>>

\* Database::store: `self.root.join(id.to_path_buf())`.
ObjectPath(id) == ObjectsRoot \o <<SLASH>> \o Id_to_path_buf(id)

\* Path::with_file_name: the last component replaced by `name`.
WithFileName(path, name) ==
    LET slashes == {i \in 1..Len(path) : path[i] = SLASH}
        last    == IF slashes = {} THEN 0
                   ELSE CHOOSE i \in slashes : \A j \in slashes : j <= i
    IN  SubSeq(path, 1, last) \o name

\* WriteLock::new: the source is `<target>.lock`.
WriteLock_source(target) == target \o LOCK_SUFFIX

\* Temp::new writing in place: the source is the target itself.
Temp_source_InPlace(target, name) == target

\* Temp::new: the source is the sibling `tmp_obj_<name>` of the target.
Temp_source(target, name) == WithFileName(target, TMP_PREFIX \o name)

FileName(path) == SubSeq(path, Len(WithFileName(path, <<>>)) + 1, Len(path))

IsLockPath(path) ==
    /\ Len(path) >= Len(LOCK_SUFFIX)
    /\ SubSeq(path, Len(path) - Len(LOCK_SUFFIX) + 1, Len(path)) = LOCK_SUFFIX

IsTempPath(path) == BytesStartsWith(FileName(path), TMP_PREFIX)

\* A final path: the index, HEAD or an object, not a lock or temp file.
IsFinalPath(path) == ~IsLockPath(path) /\ ~IsTempPath(path)

\* The file system calls the layer makes, on the map path |-> content.
FsCreate(f, path) == MapInsert(f, path, <<>>)
FsAppend(f, path, bytes) == [f EXCEPT ![path] = @ \o bytes]
FsRename(f, from, to) ==
    IF from = to THEN f ELSE MapRemove(MapInsert(f, to, f[from]), {from})
FsRemove(f, path) == MapRemove(f, {path})

\* An `Atomic`: its source and target, the writes its holder still has to
\* make, and (history) the complete bytes the holder means to publish.
Atomic(kind, source, target, bytes, chunks) ==
    [kind |-> kind, source |-> source, target |-> target,
     pending |-> chunks, full |-> bytes]

\* Atomic::new with `create(true)` in place of `create_new(true)`: an
\* existing source is no obstacle.
Atomic_new_exists_Never(f, source) == FALSE

\* Atomic::new: `create_new(true)` fails when the source exists.
Atomic_new_exists(f, source) == source \in DOMAIN f

\* Atomic::write: one write call on the open source file.
Atomic_write(f, a) == FsAppend(f, a.source, Head(a.pending))

\* Atomic::commit: `fs::rename(source, target)`.
Atomic_commit(f, a) == FsRename(f, a.source, a.target)

\* Atomic::commit without the `mem::forget`: the destructor runs after the
\* rename as well.
Atomic_commit_Armed == FALSE

\* Atomic::commit ends in `mem::forget(self)`: no destructor after a rename.
Atomic_commit_forgets == TRUE

\* Atomic without a destructor: nothing is removed.
Atomic_drop_Leaks(f, a) == f

\* Drop for Atomic: `fs::remove_file(source)`.
Atomic_drop(f, a) == FsRemove(f, a.source)

\* The write calls that carry `bytes`, as two consecutive writes.
Halves(bytes) ==
    LET h == (Len(bytes) + 1) \div 2
    IN  <<Slice(bytes, 1, h), Slice(bytes, h + 1, Len(bytes))>>

\* Index::commit: the writes through the checksum wrapper, then the digest
\* that write_checksum appends.
Index_commit_writes(entries) ==
    LET bytes == Index_bytes(entries)
    IN  <<SubSeq(bytes, 1, Len(bytes) - 20), SubSeq(bytes, Len(bytes) - 19, Len(bytes))>>

----------------------------------------------------------------------------
(* SpecRepo: processes run add, store, write_head and read_head on one
   repository, one file system call per step *)

NumProcs  == 2     \* processes, each running one command
MaxFaults == 1     \* I/O errors and panics injected per behaviour

Procs == 1..NumProcs

\* The six random characters Temp::new draws: two possible outcomes.
TempNames == {[i \in 1..6 |-> 97], [i \in 1..6 |-> 98]}

RepoStat(mtime, size) ==
    [ctime |-> mtime, ctime_nsec |-> 0, mtime |-> mtime, mtime_nsec |-> 0,
     dev |-> 1, ino |-> 2, mode |-> "Regular", uid |-> 1000, gid |-> 1000,
     size |-> size]

\* Two states of a work-tree file: its stat snapshot and its content.
RepoFiles ==
    {[metadata |-> RepoStat(1, 1), blob |-> [type |-> "blob", data |-> <<97>>]],
     [metadata |-> RepoStat(2, 2), blob |-> [type |-> "blob", data |-> <<98, LF>>]]}

\* The paths `add` is given: "f" and "g".
RepoPaths == {<<102>>, <<103>>}

\* `grit add <path>` on a work tree that holds one of the files at the path.
AddCmds ==
    {[op |-> "add", path |-> p, metadata |-> f.metadata, object |-> f.blob] :
        p \in RepoPaths, f \in RepoFiles}

\* The blobs given to Database::store on its own: "a", which `add` stores
\* too, and "\n" and "ca", whose ids start with the same byte, so that their
\* object files and temp files share one directory.
StoreObjects == {[type |-> "blob", data |-> d] : d \in {<<97>>, <<LF>>, <<99, 97>>}}

StoreCmds == {[op |-> "store", object |-> o] : o \in StoreObjects}

\* References::write_head of a commit id, and References::read_head.
WriteHeadCmds == {[op |-> "write_head", id |-> Sha1(<<99, n>>)] : n \in {1, 2}}
ReadHeadCmds == {[op |-> "read_head"]}

\* An index file that an earlier run left: one entry, for the path "e".
GoodIndex ==
    Index_bytes(MapInsert(EmptyMap, <<101>>,
                          Entry_new(RepoStat(1, 1), Sha1(<<98, 1>>), <<101>>)))

\* The same file with its last checksum byte changed, and with a changed
\* signature.
BadChecksumIndex == [GoodIndex EXCEPT ![Len(GoodIndex)] = (@ + 1) % 256]
BadSignatureIndex == [GoodIndex EXCEPT ![1] = 100]

\* The `.git` directory before the processes start: no index, or one of the
\* index files above; no HEAD, no objects, no lock or temp file.
InitialFs ==
    {EmptyMap} \cup
    {MapInsert(EmptyMap, IndexPath, b) :
        b \in {GoodIndex, BadChecksumIndex, BadSignatureIndex}}

InitRepo ==
    /\ IdleIndex
    /\ IdleObject
    /\ IdleWalk
    /\ IdleStatus
    /\ IdleDiff
    /\ IdleWs
    /\ IdleChanges
    /\ IdleChecksum
    /\ IdleEntry
    /\ IdleHistory
    /\ IdleMeta
    /\ fs0 \in InitialFs
    /\ fs = fs0
    /\ pc = [p \in Procs |-> "start"]
    /\ cmd = [p \in Procs |-> [op |-> "none"]]
    /\ held = [p \in Procs |-> <<>>]
    /\ mem = [p \in Procs |-> [entries |-> EmptyMap, changed |-> FALSE]]
    /\ res = [p \in Procs |-> None]
    /\ acquiredBy = {}
    /\ renamedBy = {}
    /\ removedBy = {}
    /\ images = {}
    /\ commitLog = <<>>
    /\ faulted = {}

Top(p) == held[p][Len(held[p])]
Pop(h) == SubSeq(h, 1, Len(h) - 1)

\* Database::store on a temp name that exists: "Object has already been
\* written to disk", the id is returned.
Database_store_exists(id) == Ok(id)

\* Where process p stands once Database::store has returned r to command c:
\* `add` goes on to Index::insert and then Index::commit, or fails with the
\* error of store; a store command ends with r.
AfterStore(p, c, r) ==
    IF c.op = "add" /\ r.ok
    THEN [pc  |-> "index_commit",
          mem |-> Index_insert(mem[p].entries, mem[p].changed,
                               c.metadata, r.val, c.path),
          res |-> res[p], log |-> commitLog]
    ELSE [pc |-> IF c.op = "add" THEN "drop" ELSE "done",
          mem |-> mem[p], res |-> Some(r), log |-> commitLog]

\* Where process p stands once the commit of its Atomic `a` has returned Ok:
\* Database::store returns the id, and Index::commit and write_head return
\* Ok(()).
AfterCommit(p, c, a) ==
    IF a.kind = "temp"
    THEN AfterStore(p, c, Ok(Database_store_plan(c.object).id))
    ELSE [pc |-> "done", mem |-> mem[p], res |-> Some(Ok(<<>>)),
          log |-> IF c.op = "add" THEN Append(commitLog, c) ELSE commitLog]

\* Process p moves on as the record k says.
Resume(p, k) ==
    /\ pc' = [pc EXCEPT ![p] = k.pc]
    /\ mem' = [mem EXCEPT ![p] = k.mem]
    /\ res' = [res EXCEPT ![p] = k.res]
    /\ commitLog' = k.log

\* WriteLock::new by process p for command c: create `<target>.lock`
\* exclusively; `bytes` is what the holder will write (nothing yet for the
\* index and for read_head).
WriteLock_new(p, c, target, bytes, next) ==
    LET source == WriteLock_source(target)
    IN  /\ cmd' = [cmd EXCEPT ![p] = c]
        /\ IF Atomic_new_exists(fs, source)
           THEN /\ res' = [res EXCEPT ![p] = Some(Err("AlreadyExists"))]
                /\ pc' = [pc EXCEPT ![p] = "done"]
                /\ UNCHANGED <<fs, held, acquiredBy>>
           ELSE /\ fs' = FsCreate(fs, source)
                /\ held' = [held EXCEPT ![p] =
                               Append(@, Atomic("lock", source, target, bytes,
                                                IF bytes = <<>> THEN <<>>
                                                ELSE Halves(bytes)))]
                /\ acquiredBy' = acquiredBy \cup {[proc |-> p, source |-> source]}
                /\ pc' = [pc EXCEPT ![p] = next]
                /\ UNCHANGED res
        /\ UNCHANGED <<fs0, mem, renamedBy, removedBy, images, commitLog, faulted,
                       repoOthers>>

\* Database::store up to Temp::new, for the object of command c: a temp name
\* that exists makes store return Ok(id) at once; otherwise the temp file is
\* created and the compressed bytes are still to be written.
Database_store_begin(p, c) ==
    LET plan   == Database_store_plan(c.object)
        target == ObjectPath(plan.id)
    IN  \E name \in TempNames :
          LET source == Temp_source(target, name)
          IN  /\ cmd' = [cmd EXCEPT ![p] = c]
              /\ IF Atomic_new_exists(fs, source)
                 THEN /\ Resume(p, AfterStore(p, c, Database_store_exists(plan.id)))
                      /\ UNCHANGED <<fs, held, acquiredBy>>
                 ELSE /\ fs' = FsCreate(fs, source)
                      /\ held' = [held EXCEPT ![p] =
                                     Append(@, Atomic("temp", source, target,
                                                      plan.bytes, Halves(plan.bytes)))]
                      /\ acquiredBy' = acquiredBy \cup
                                           {[proc |-> p, source |-> source]}
                      /\ pc' = [pc EXCEPT ![p] = "temp_write"]
                      /\ UNCHANGED <<mem, res, commitLog>>
              /\ UNCHANGED <<fs0, renamedBy, removedBy, images, faulted, repoOthers>>

\* `grit add`: Index::lock, first half: WriteLock::new on `.git/index`.
IndexAcquire(p) ==
    /\ pc[p] = "start"
    /\ \E c \in AddCmds : WriteLock_new(p, c, IndexPath, <<>>, "index_read")

\* Index::lock, second half: open the target if it exists, read and check it.
\* An error or a panic unwinds through the lock's destructor.
IndexOpen(p) ==
    /\ pc[p] = "index_read"
    /\ LET disk == IF IndexPath \in DOMAIN fs THEN Some(fs[IndexPath]) ELSE None
           r    == Index_lock_read(disk)
       IN  IF r.ok
           THEN /\ mem' = [mem EXCEPT ![p] = [entries |-> r.val, changed |-> FALSE]]
                /\ pc' = [pc EXCEPT ![p] = "store"]
                /\ UNCHANGED res
           ELSE /\ res' = [res EXCEPT ![p] = Some(r)]
                /\ pc' = [pc EXCEPT ![p] = IF r.err = "Hang" THEN "hung" ELSE "drop"]
                /\ UNCHANGED mem
    /\ UNCHANGED <<fs, fs0, cmd, held, acquiredBy, renamedBy, removedBy, images,
                   commitLog, faulted, repoOthers>>

\* Add::run: Database::store of the file's blob, up to Temp::new.
AddStore(p) ==
    /\ pc[p] = "store"
    /\ Database_store_begin(p, cmd[p])

\* Database::store called on its own, up to Temp::new.
StoreStart(p) ==
    /\ pc[p] = "start"
    /\ \E c \in StoreCmds : Database_store_begin(p, c)

\* References::write_head: WriteLock::new on `.git/HEAD`.
WriteHeadAcquire(p) ==
    /\ pc[p] = "start"
    /\ \E c \in WriteHeadCmds :
         WriteLock_new(p, c, HeadPath, Id_write_hex(c.id), "lock_write")

\* References::read_head: WriteLock::new on `.git/HEAD`.
ReadHeadAcquire(p) ==
    /\ pc[p] = "start"
    /\ \E c \in ReadHeadCmds : WriteLock_new(p, c, HeadPath, <<>>, "head_read")

\* What References::read_head returns with the lock held, and which always
\* reports a missing HEAD.
References_read_head_Missing(f) == Ok(None)

References_read_head(f) ==
    LET h == Id_read_hex(f[HeadPath], 1)
    IN  IF HeadPath \notin DOMAIN f THEN Ok(None)
        ELSE IF h.ok THEN Ok(Some(h.val.val))
        ELSE h

\* References::read_head once the lock is held: no HEAD gives Ok(None),
\* otherwise the id is read; the lock is dropped on the way out.
ReadHead(p) ==
    /\ pc[p] = "head_read"
    /\ res' = [res EXCEPT ![p] = Some(References_read_head(fs))]
    /\ pc' = [pc EXCEPT ![p] = "drop"]
    /\ UNCHANGED <<fs, fs0, cmd, held, mem, acquiredBy, renamedBy, removedBy,
                   images, commitLog, faulted, repoOthers>>

\* Index::commit, before any write: an unchanged index returns Ok(()) and
\* the lock is dropped; otherwise the header, the entries and the checksum
\* are to be written to the lock file.
IndexCommitStart(p) ==
    /\ pc[p] = "index_commit"
    /\ IF ~mem[p].changed
       THEN /\ res' = [res EXCEPT ![p] = Some(Ok(<<>>))]
            /\ commitLog' = Append(commitLog, cmd[p])
            /\ pc' = [pc EXCEPT ![p] = "drop"]
            /\ UNCHANGED held
       ELSE /\ held' = [held EXCEPT ![p][Len(held[p])] =
                           [@ EXCEPT !.pending = Index_commit_writes(mem[p].entries),
                                     !.full = Index_bytes(mem[p].entries)]]
            /\ pc' = [pc EXCEPT ![p] = "lock_write"]
            /\ UNCHANGED <<res, commitLog>>
    /\ UNCHANGED <<fs, fs0, cmd, mem, acquiredBy, renamedBy, removedBy, images,
                   faulted, repoOthers>>

Writing(p) == pc[p] \in {"temp_write", "lock_write"}
Committing(p) == pc[p] \in {"temp_commit", "lock_commit"}

\* An injected I/O error or panic is still within the budget.
MayFault == Cardinality(faulted) < MaxFaults

\* Process p fails with `kind` and unwinds: its live Atomics are dropped.
Unwind(p, kind) ==
    /\ res' = [res EXCEPT ![p] = Some(Err(kind))]
    /\ pc' = [pc EXCEPT ![p] = "drop"]
    /\ faulted' = faulted \cup {p}
    /\ UNCHANGED <<fs, fs0, cmd, held, mem, acquiredBy, renamedBy, removedBy,
                   images, commitLog, repoOthers>>

\* One successful write to the source of the Atomic on top.
AtomicWrite(p) ==
    /\ Writing(p)
    /\ LET a    == Top(p)
           rest == Tail(a.pending)
       IN  /\ fs' = Atomic_write(fs, a)
           /\ held' = [held EXCEPT ![p][Len(held[p])] = [@ EXCEPT !.pending = rest]]
           /\ pc' = [pc EXCEPT ![p] =
                        IF rest # <<>> THEN pc[p]
                        ELSE IF a.kind = "temp" THEN "temp_commit"
                        ELSE "lock_commit"]
    /\ UNCHANGED <<fs0, cmd, mem, res, acquiredBy, renamedBy, removedBy, images,
                   commitLog, faulted, repoOthers>>

\* A write returns an error: `?` leaves the function and the Atomic drops.
AtomicWriteFails(p) ==
    /\ Writing(p)
    /\ MayFault
    /\ Unwind(p, "Io")

\* Atomic::commit: the rename succeeds and the destructor is disarmed.
AtomicCommit(p) ==
    /\ Committing(p)
    /\ LET a == Top(p)
       IN  /\ fs' = Atomic_commit(fs, a)
           /\ renamedBy' = renamedBy \cup
                  {[proc |-> p, source |-> a.source, target |-> a.target]}
           /\ images' = images \cup {<<a.target, a.full>>}
           /\ IF Atomic_commit_forgets
              THEN /\ held' = [held EXCEPT ![p] = Pop(@)]
                   /\ Resume(p, AfterCommit(p, cmd[p], a))
              ELSE /\ pc' = [pc EXCEPT ![p] = "commit_drop"]
                   /\ UNCHANGED <<held, mem, res, commitLog>>
    /\ UNCHANGED <<fs0, cmd, acquiredBy, removedBy, faulted, repoOthers>>

\* Atomic::commit: the rename returns an error and the Atomic drops.
AtomicCommitFails(p) ==
    /\ Committing(p)
    /\ MayFault
    /\ Unwind(p, "Io")

\* A panic while an Atomic is live: the stack unwinds through the
\* destructors.
Abort(p) ==
    /\ pc[p] \in {"index_read", "store", "temp_write", "temp_commit",
                  "index_commit", "lock_write", "lock_commit", "head_read"}
    /\ held[p] # <<>>
    /\ MayFault
    /\ Unwind(p, "Panic")

\* Drop for Atomic, for the Atomic on top: remove the source, and panic when
\* that fails.  The process ends once its last Atomic is gone.
AtomicDrop(p) ==
    /\ pc[p] \in {"drop", "commit_drop"}
    /\ held[p] # <<>>
    /\ LET a    == Top(p)
           rest == Pop(held[p])
           here == a.source \in DOMAIN fs
       IN  /\ held' = [held EXCEPT ![p] = rest]
           /\ fs' = IF here THEN Atomic_drop(fs, a) ELSE fs
           /\ removedBy' = IF here
                           THEN removedBy \cup {[proc |-> p, source |-> a.source]}
                           ELSE removedBy
           /\ IF pc[p] = "commit_drop" /\ here
              THEN Resume(p, AfterCommit(p, cmd[p], a))
              ELSE /\ pc' = [pc EXCEPT ![p] = IF rest = <<>> THEN "done" ELSE "drop"]
                   /\ res' = [res EXCEPT ![p] = IF here THEN @ ELSE Some(Err("Panic"))]
                   /\ UNCHANGED <<mem, commitLog>>
    /\ UNCHANGED <<fs0, cmd, acquiredBy, renamedBy, images, faulted, repoOthers>>

NextRepo ==
    \E p \in Procs :
        \/ IndexAcquire(p)
        \/ IndexOpen(p)
        \/ AddStore(p)
        \/ StoreStart(p)
        \/ WriteHeadAcquire(p)
        \/ ReadHeadAcquire(p)
        \/ ReadHead(p)
        \/ IndexCommitStart(p)
        \/ AtomicWrite(p)
        \/ AtomicWriteFails(p)
        \/ AtomicCommit(p)
        \/ AtomicCommitFails(p)
        \/ Abort(p)
        \/ AtomicDrop(p)

SpecRepo == InitRepo /\ [][NextRepo]_vars

----------------------------------------------------------------------------
(* SpecStore: processes that only call Database::store, on an empty
   object database *)

NumStorers == 3    \* processes, each making one Database::store call

Storers == 1..NumStorers

InitStore ==
    /\ IdleIndex
    /\ IdleObject
    /\ IdleWalk
    /\ IdleStatus
    /\ IdleDiff
    /\ IdleWs
    /\ IdleChanges
    /\ IdleChecksum
    /\ IdleEntry
    /\ IdleHistory
    /\ IdleMeta
    /\ fs0 = EmptyMap
    /\ fs = fs0
    /\ pc = [p \in Storers |-> "start"]
    /\ cmd = [p \in Storers |-> [op |-> "none"]]
    /\ held = [p \in Storers |-> <<>>]
    /\ mem = [p \in Storers |-> [entries |-> EmptyMap, changed |-> FALSE]]
    /\ res = [p \in Storers |-> None]
    /\ acquiredBy = {}
    /\ renamedBy = {}
    /\ removedBy = {}
    /\ images = {}
    /\ commitLog = <<>>
    /\ faulted = {}

NextStore ==
    \E p \in Storers :
        \/ StoreStart(p)
        \/ AtomicWrite(p)
        \/ AtomicWriteFails(p)
        \/ AtomicCommit(p)
        \/ AtomicCommitFails(p)
        \/ Abort(p)
        \/ AtomicDrop(p)

SpecStore == InitStore /\ [][NextStore]_vars

----------------------------------------------------------------------------
(* Claims about locks, temp files and the object store *)

\* The processes that hold a live Atomic whose source is `source`.
Holders(source) ==
    {p \in DOMAIN pc : \E i \in 1..Len(held[p]) : held[p][i].source = source}

\* The target whose lock command c takes first.
LockTarget(c) == IF c.op = "add" THEN IndexPath ELSE HeadPath

\* Process p makes its WriteLock::new call in this step.
TriesLock(p) ==
    /\ pc[p] = "start"
    /\ pc'[p] # "start"
    /\ cmd'[p].op \in {"add", "write_head", "read_head"}

\* C1: at most one process holds `<target>.lock` at any time, and while it is
\* held every other acquisition attempt ends at once with AlreadyExists,
\* leaving the lock file, the target and every other file as they were.
C1_LockExclusion ==
    /\ [](\A t \in {IndexPath, HeadPath} :
             Cardinality(Holders(WriteLock_source(t))) <= 1)
    /\ [][\A p \in DOMAIN pc :
             (TriesLock(p) /\ Holders(WriteLock_source(LockTarget(cmd'[p]))) # {})
                 => /\ res'[p] = Some(Err("AlreadyExists"))
                    /\ pc'[p] = "done"
                    /\ fs' = fs
                    /\ held' = held]_vars

\* C1 witness: one `add` holds `.git/index.lock` and has opened the index,
\* and another `add` has been turned away with AlreadyExists.
C1_Witness ==
    \E p \in DOMAIN pc, q \in DOMAIN pc :
        /\ p # q
        /\ p \in Holders(WriteLock_source(IndexPath))
        /\ pc[p] \notin {"start", "index_read", "done"}
        /\ cmd[q].op = "add"
        /\ res[q] = Some(Err("AlreadyExists"))

\* The bytes are a complete file for the final path: an index that opens, a
\* HEAD of forty hexadecimal digits, or an object stored under its own id.
Complete(path, bytes) ==
    IF path = IndexPath THEN Index_lock_read(Some(bytes)).ok
    ELSE IF path = HeadPath THEN Len(bytes) = 40 /\ Id_read_hex(bytes, 1).ok
    ELSE LET z == Zlib_decode(bytes)
         IN  z.ok /\ ObjectPath(Id_hash(z.val)) = path

\* C4: in every reachable state each file at a final path (an object path,
\* `index`, `HEAD`) is the file that was there at the start, or holds the
\* complete bytes of one committed write; partial content is never visible.
C4_NoPartialFile ==
    \A path \in DOMAIN fs :
        IsFinalPath(path) =>
            \/ path \in DOMAIN fs0 /\ fs[path] = fs0[path]
            \/ <<path, fs[path]>> \in images /\ Complete(path, fs[path])

\* C4 witness: a writer has been interrupted by a failure after a partial
\* write to its temp or lock file, whose target another writer has committed
\* while the half-written source still exists.
C4_Witness ==
    \E p \in DOMAIN pc :
        /\ p \in faulted
        /\ held[p] # <<>>
        /\ LET a == Top(p)
           IN  /\ a.source \in DOMAIN fs
               /\ fs[a.source] # <<>>
               /\ a.pending # <<>>
               /\ a.target \in DOMAIN fs
               /\ \E r \in renamedBy : r.target = a.target /\ r.proc # p

\* The sources process p has acquired, renamed onto their target, removed.
AcquiredOf(p) == {r.source : r \in {x \in acquiredBy : x.proc = p}}
RenamedOf(p) == {r.source : r \in {x \in renamedBy : x.proc = p}}
RemovedOf(p) == {r.source : r \in {x \in removedBy : x.proc = p}}

\* C5: for every lock or temp file a holder has acquired it performs exactly
\* one of rename onto the target and removal; nothing is removed after a
\* successful rename, so the lock or temp file of a live Atomic is never
\* deleted by another process.
C5_RenameXorRemove ==
    /\ \A p \in DOMAIN pc :
          /\ RenamedOf(p) \cap RemovedOf(p) = {}
          /\ RenamedOf(p) \cup RemovedOf(p) \subseteq AcquiredOf(p)
          /\ pc[p] = "done" => RenamedOf(p) \cup RemovedOf(p) = AcquiredOf(p)
    /\ \A p \in DOMAIN pc : \A i \in 1..Len(held[p]) : held[p][i].source \in DOMAIN fs

\* C5 witness: a process has renamed `.git/index.lock` over the index and has
\* ended, and another process holds a new `.git/index.lock`.
C5_Witness ==
    \E p \in DOMAIN pc, q \in DOMAIN pc :
        /\ p # q
        /\ pc[p] = "done"
        /\ WriteLock_source(IndexPath) \in RenamedOf(p)
        /\ q \in Holders(WriteLock_source(IndexPath))
        /\ WriteLock_source(IndexPath) \in DOMAIN fs

\* C6: a holder that ends without a successful commit (write or rename
\* error, unchanged index, failed open of the index, panic) removes its lock
\* or temp file and leaves the target as it was: every lock or temp file on
\* disk belongs to a live holder, and a final path only differs from the
\* start where a rename has succeeded.
C6_NoLeak ==
    /\ \A path \in DOMAIN fs :
          ~IsFinalPath(path) => \E p \in Holders(path) : pc[p] # "done"
    /\ \A p \in DOMAIN pc : pc[p] = "done" => held[p] = <<>>
    /\ \A path \in DOMAIN fs \cup DOMAIN fs0 :
          (IsFinalPath(path)
             /\ ~(path \in DOMAIN fs /\ path \in DOMAIN fs0 /\ fs[path] = fs0[path]))
          => \E r \in renamedBy : r.target = path

\* C6 witness: an `add` has panicked while it held the index lock and the
\* temp file of its blob; it has ended, both files are removed, no lock or
\* temp file is left and the index is the one of the start.
C6_Witness ==
    \E p \in DOMAIN pc :
        /\ pc[p] = "done"
        /\ cmd[p].op = "add"
        /\ res[p] = Some(Err("Panic"))
        /\ p \in faulted
        /\ WriteLock_source(IndexPath) \in RemovedOf(p)
        /\ \E t \in RemovedOf(p) : IsTempPath(t)
        /\ RenamedOf(p) = {}
        /\ \A path \in DOMAIN fs : IsFinalPath(path)
        /\ IndexPath \in DOMAIN fs0
        /\ fs[IndexPath] = fs0[IndexPath]

\* The entries of the index file in f (no file: no entries).
IndexOnDisk(f) ==
    Index_lock_read(IF IndexPath \in DOMAIN f THEN Some(f[IndexPath]) ELSE None)

\* The inserts of the adds in `log`, applied in order to `entries`.
RECURSIVE ApplyAdds(_, _)
ApplyAdds(entries, log) ==
    IF log = <<>> THEN entries
    ELSE LET c == Head(log)
         IN  ApplyAdds(Index_insert(entries, FALSE, c.metadata,
                                    Database_store_plan(c.object).id, c.path).entries,
                       Tail(log))

\* C7 (as claimed): the index on disk equals the inserts of the adds that
\* committed, applied in commit order to the initial index.
C7_ReadModifyWrite ==
    commitLog # <<>> =>
        IndexOnDisk(fs) = Ok(ApplyAdds(IndexOnDisk(fs0).val, commitLog))

\* C9 (as claimed): for each object id at most one store call ever renames
\* onto the object's final path.
C9_SingleWriter ==
    \A r1 \in renamedBy, r2 \in renamedBy :
        (r1.target = r2.target /\ BytesStartsWith(r1.target, ObjectsRoot))
            => r1 = r2

\* C10 (as claimed): storing the same object twice does not fail and leaves
\* one file: once every process has ended, without any I/O error or panic,
\* two store calls of the same object have both returned Ok with its id, the
\* object's file exists with the stored bytes and no `tmp_obj_*` file is left.
C10_StoreDedup ==
    \A p \in DOMAIN pc, q \in DOMAIN pc :
        (/\ p # q
         /\ faulted = {}
         /\ \A x \in DOMAIN pc : pc[x] = "done"
         /\ cmd[p].op = "store" /\ cmd[q].op = "store"
         /\ cmd[p].object = cmd[q].object)
        => LET plan == Database_store_plan(cmd[p].object)
               path == ObjectPath(plan.id)
           IN  /\ res[p] = Some(Ok(plan.id))
               /\ res[q] = Some(Ok(plan.id))
               /\ path \in DOMAIN fs
               /\ fs[path] = plan.bytes
               /\ \A t \in DOMAIN fs : ~IsTempPath(t)

----------------------------------------------------------------------------
(* The index iterator: src/index.rs, struct Iter *)

\* Iter::new: the first entry, if any, waits to be yielded.
Iter_new(entries) ==
    LET ks == SortKeys(DOMAIN entries)
    IN  [rest  |-> IF ks = <<>> THEN <<>> ELSE Tail(ks),
         state |-> IF ks = <<>> THEN None
                   ELSE Some([tag |-> "Yield", path |-> ks[1]]),
         queue |-> <<>>]

\* Iterator::next, bottom: every ancestor of prev, deepest first, whether or
\* not next lies beneath it.
Iter_between_All(prev, next) ==
    LET as == Ancestors(prev) IN Slice(as, 2, Len(as))

\* Iterator::next, bottom: `prev.path.ancestors().skip(1).take_while(..)`, the
\* directories that close between the previous file and the next one.
Iter_between(prev, next) ==
    LET Differs(a) == next = None \/ ~PathStartsWith(next[1], a)
        as         == Ancestors(prev)
    IN  TakeWhile(Differs, Slice(as, 2, Len(as)))

\* Iterator::next for Iter: the item and the iterator after the call.
RECURSIVE Iter_next(_)
Iter_next(it) ==
    IF it.queue # <<>>
    THEN [item |-> Some([kind |-> "Directory", path |-> Head(it.queue)]),
          it   |-> [it EXCEPT !.queue = Tail(@)]]
    ELSE IF it.state = None
    THEN [item |-> None, it |-> it]
    ELSE IF it.state[1].tag = "Yield"
    THEN [item |-> Some([kind |-> "File", path |-> it.state[1].path]),
          it   |-> [it EXCEPT !.state = Some([tag |-> "Yielded", path |-> it.state[1].path])]]
    ELSE LET prev == it.state[1].path
             next == IF it.rest = <<>> THEN None ELSE Some(Head(it.rest))
         IN  Iter_next([rest  |-> IF it.rest = <<>> THEN <<>> ELSE Tail(it.rest),
                        state |-> IF next = None THEN None
                                  ELSE Some([tag |-> "Yield", path |-> next[1]]),
                        queue |-> Iter_between(prev, next)])

----------------------------------------------------------------------------
(* Commit::walk_index: src/command/commit.rs; Status::walk_head:            *)
(* src/command/status.rs                                                    *)

\* Path::file_name().unwrap_or_default()
Path_file_name(p) ==
    LET cs == Components(p) IN IF cs = <<>> THEN <<>> ELSE cs[Len(cs)]

\* PathBuf::push / Path::join of a relative name.
Path_join(prefix, name) ==
    IF prefix = <<>> THEN name ELSE prefix \o <<SLASH>> \o name

\* Vec::resize(n, 0)
Vec_resize(v, n) == [i \in 1..n |-> IF i <= Len(v) THEN v[i] ELSE 0]

\* Tree::new reversing its argument.
Tree_new_Reversed(nodes) == [i \in 1..Len(nodes) |-> nodes[Len(nodes) + 1 - i]]

\* Tree::new: the vector as given.
Tree_new(nodes) == nodes

\* walk_index, Directory arm, taking the whole stack.
WalkIndex_split_All(stack, count) == 0

\* walk_index, Directory arm: `stack.len() - count`, where the children of
\* the directory start on the stack.
WalkIndex_split(stack, count) == Len(stack) - count

\* The body of the loop of walk_index for one node of the iterator: the new
\* stack, count and object store.  `database.store` is taken to succeed.
WalkIndex_body(entries, stack, count, db, node) ==
    LET path    == node.path
        depth   == Len(Components(path))
        isFile  == node.kind = "File"
        resized == Vec_resize(count, IF isFile THEN depth ELSE depth + 1)
        popped  == resized[Len(resized)]
        count1  == IF isFile THEN resized ELSE SubSeq(resized, 1, Len(resized) - 1)
        index   == WalkIndex_split(stack, popped)
        plan    == Database_store_plan(
                       [type |-> "tree",
                        nodes |-> Tree_new(Slice(stack, index + 1, Len(stack)))])
        pushed  == Append(IF isFile THEN stack ELSE SubSeq(stack, 1, index),
                          [path |-> Path_file_name(path),
                           id   |-> IF isFile THEN entries[path].id ELSE plan.id,
                           mode |-> IF isFile THEN entries[path].metadata.mode
                                    ELSE "Directory"])
    IN  IF ~isFile /\ popped = 0
        THEN [stack |-> stack, count |-> count1, db |-> db, pc |-> "walk"]
        ELSE IF (~isFile /\ index < 0) \/ (count1 = <<>> /\ path # <<>>)
        THEN [stack |-> stack, count |-> count1, db |-> db, pc |-> "panic"]
        ELSE [stack |-> pushed,
              count |-> IF count1 = <<>> THEN count1
                        ELSE [count1 EXCEPT ![Len(count1)] = @ + 1],
              db    |-> IF isFile THEN db ELSE MapInsert(db, plan.id, plan.bytes),
              pc    |-> "walk"]

\* The element of a set of one element (binds a value that is used often).
TheOne(S) == CHOOSE x \in S : TRUE

\* The object file of id, as Database::load finds it.
Database_file(db, id) == IF id \in DOMAIN db THEN Some(db[id]) ELSE None

\* `recurse` of Status::walk_head and Show::show_tree walk the stored trees
\* in the same way, and one operator follows both, with the call stack made
\* explicit: todo holds what is still to be visited, first the nodes of the
\* tree being looped over, then what the callers have left.  An item with
\* load set is an object to load; `takes` names the object types its caller
\* has a match arm for (any other is `unreachable!()`), `then` the same for
\* the loads it leads to.  A commit leads to its tree, a tree to its nodes,
\* each directory node to a load under the longer prefix; any other item is
\* a file node.
WalkHeadTakes == {"commit", "tree"}
ShowTreeTakes == {"tree"}
ShowRunTakes  == {"commit"}

Load_item(id, takes, then) ==
    [load |-> TRUE, takes |-> takes, then |-> then, id |-> id,
     mode |-> "Directory", path |-> <<>>, name |-> <<>>]

Load_push(o, t, rest) ==
    IF ~o.ok THEN <<>>
    ELSE IF o.val.type = "commit"
         THEN <<[t EXCEPT !.id = o.val.tree, !.takes = t.then]>> \o rest
    ELSE IF o.val.type = "tree"
         THEN [i \in 1..Len(o.val.nodes) |->
                  [load  |-> o.val.nodes[i].mode = "Directory",
                   takes |-> t.then,
                   then  |-> t.then,
                   id    |-> o.val.nodes[i].id,
                   mode  |-> o.val.nodes[i].mode,
                   path  |-> Path_join(t.path, o.val.nodes[i].path),
                   name  |-> o.val.nodes[i].path]] \o rest
    ELSE <<>>

\* The walk: how it ended, and the file nodes it came to before, in order.
\* The first error ends it.  The reader's timezone plays no part here.
RECURSIVE Load_recurse(_, _, _)
Load_recurse(db, todo, files) ==
    IF todo = <<>> THEN [res |-> Ok(TRUE), files |-> files]
    ELSE IF ~Head(todo).load
         THEN Load_recurse(db, Tail(todo), Append(files, Head(todo)))
    ELSE TheOne({ IF ~o.ok THEN [res |-> o, files |-> files]
                  ELSE IF o.val.type \notin Head(todo).takes
                       THEN [res |-> Err("Panic"), files |-> files]
                  ELSE Load_recurse(db, Load_push(o, Head(todo), Tail(todo)), files) :
                  o \in {Database_load(Database_file(db, Head(todo).id), 0)} })

\* walk_head: `state.insert` for each file node, under its joined path.
RECURSIVE WalkHead_state(_)
WalkHead_state(files) ==
    IF files = <<>> THEN EmptyMap
    ELSE MapInsert(WalkHead_state(SubSeq(files, 1, Len(files) - 1)),
                   files[Len(files)].path,
                   [id |-> files[Len(files)].id, mode |-> files[Len(files)].mode])

\* Status::walk_head
WalkHead(db, id) ==
    LET r == Load_recurse(db, <<Load_item(id, WalkHeadTakes, WalkHeadTakes)>>, <<>>)
    IN  IF r.res.ok THEN Ok(WalkHead_state(r.files)) ELSE r.res

\* Show::show_tree: the `println!` for each file node: the mode literal, the
\* id and the path of the node, which is its name.
Show_lines(files) ==
    [i \in 1..Len(files) |->
        [mode |-> Mode_as_str(files[i].mode), id |-> files[i].id,
         path |-> files[i].name]]

----------------------------------------------------------------------------
(* SpecWalk: `commit` walks one index and stores its trees *)

MaxVariants == 2    \* variants of the content and mode of the staged files

\* "a", "a-", "a.c", "a/b", "a/d/b", "a0", "c/b"
WalkPaths ==
    {<<97>>, <<97, 45>>, <<97, 46, 99>>, <<97, SLASH, 98>>,
     <<97, SLASH, 100, SLASH, 98>>, <<97, 48>>, <<99, SLASH, 98>>}

\* What `add` stages for path p in variant v: the stat snapshot and the id of
\* the blob.  Files with the same name have the same content.
WalkFile(p, v) ==
    LET blob == [type |-> "blob", data |-> <<p[Len(p)], v>>]
    IN  [metadata |-> [RepoStat(v, 2) EXCEPT
                          !.mode = IF v % 2 = 0 /\ Len(p) = 3 THEN "Executable"
                                   ELSE "Regular"],
         id |-> Database_store_plan(blob).id]

\* The index after Index::insert of each path of ps, in that order.
RECURSIVE Index_insert_all(_, _, _)
Index_insert_all(entries, ps, v) ==
    IF ps = <<>> THEN entries
    ELSE Index_insert_all(
             Index_insert(entries, FALSE, WalkFile(Head(ps), v).metadata,
                          WalkFile(Head(ps), v).id, Head(ps)).entries,
             Tail(ps), v)

InitWalk ==
    /\ IdleIndex
    /\ IdleObject
    /\ IdleRepo
    /\ IdleStatus
    /\ IdleDiff
    /\ IdleWs
    /\ IdleChanges
    /\ IdleChecksum
    /\ IdleEntry
    /\ IdleHistory
    /\ IdleMeta
    /\ \E S \in SUBSET WalkPaths, v \in 1..MaxVariants :
         wkEntries = Index_insert_all(EmptyMap, SortKeys(S), v)
    /\ wkIter = Iter_new(wkEntries)
    /\ wkNodes = <<>>
    /\ wkStack = <<>>
    /\ wkCount = <<>>
    /\ wkDb = EmptyMap
    /\ wkPc = "walk"
    /\ wkRoot = None

\* One turn of the loop of walk_index: Iterator::next, then the body.
WalkStep ==
    /\ wkPc = "walk"
    /\ LET r == Iter_next(wkIter)
       IN  /\ IsSome(r.item)
           /\ wkIter' = r.it
           /\ wkNodes' = Append(wkNodes, r.item[1])
           /\ LET w == WalkIndex_body(wkEntries, wkStack, wkCount, wkDb, r.item[1])
              IN  /\ wkStack' = w.stack
                  /\ wkCount' = w.count
                  /\ wkDb' = w.db
                  /\ wkPc' = w.pc
    /\ UNCHANGED <<wkEntries, wkRoot, walkOthers>>

\* The iterator is exhausted: `stack.pop().expect(..).id`.
WalkFinish ==
    /\ wkPc = "walk"
    /\ ~IsSome(Iter_next(wkIter).item)
    /\ IF wkStack = <<>>
       THEN /\ wkPc' = "panic"
            /\ UNCHANGED <<wkStack, wkRoot>>
       ELSE /\ wkPc' = "done"
            /\ wkRoot' = Some(wkStack[Len(wkStack)].id)
            /\ wkStack' = SubSeq(wkStack, 1, Len(wkStack) - 1)
    /\ UNCHANGED <<wkEntries, wkIter, wkNodes, wkCount, wkDb, walkOthers>>

NextWalk == WalkStep \/ WalkFinish

SpecWalk == InitWalk /\ [][NextWalk]_vars

\* What the index says of each staged file: its blob and its mode.
IndexView(entries) ==
    [p \in DOMAIN entries |-> [id |-> entries[p].id, mode |-> entries[p].metadata.mode]]

\* C12: when walk_index returns an id, the tree of that id, flattened as
\* Status::walk_head flattens it, is exactly the index: the same paths, each
\* with the blob id and the mode of its entry.
C12_TreeMatchesIndex ==
    wkPc = "done" =>
        /\ IsSome(wkRoot)
        /\ wkEntries # EmptyMap
        /\ WalkHead(wkDb, wkRoot[1]) = Ok(IndexView(wkEntries))

\* C12 witness: a finished walk of an index with a file two directories deep
\* next to files at the top.
C12_Witness ==
    /\ wkPc = "done"
    /\ Cardinality(DOMAIN wkEntries) >= 3
    /\ \E p \in DOMAIN wkEntries : Len(Components(p)) = 3
    /\ \E p \in DOMAIN wkEntries : Len(Components(p)) = 1

\* The key a tree entry sorts by: the name, with `/` after a directory's.
TreeKey(node) == IF node.mode = "Directory" THEN node.path \o <<SLASH>> ELSE node.path

\* The nodes of the tree stored under id.
StoredTree(db, id) == Database_load(Database_file(db, id), 0)

\* C13: every tree that walk_index stores lists its entries in strictly
\* ascending byte-wise order of their names, a directory's name counting as
\* if it ended in `/`, and no name occurs twice.
C13_TreeOrder ==
    \A id \in DOMAIN wkDb :
        LET t == StoredTree(wkDb, id)
        IN  /\ t.ok
            /\ t.val.type = "tree"
            /\ \A i \in 1..(Len(t.val.nodes) - 1) :
                   ByteLess(TreeKey(t.val.nodes[i]), TreeKey(t.val.nodes[i + 1]))
            /\ \A i, j \in 1..Len(t.val.nodes) :
                   i # j => t.val.nodes[i].path # t.val.nodes[j].path

\* C13 witness: a stored tree with the file "a.c", then the directory "a",
\* then the file "a0".
C13_Witness ==
    \E id \in DOMAIN wkDb :
        LET t == StoredTree(wkDb, id)
        IN  /\ t.ok
            /\ \E i \in 1..(Len(t.val.nodes) - 2) :
                   /\ t.val.nodes[i].path = <<97, 46, 99>>
                   /\ t.val.nodes[i + 1].path = <<97>>
                   /\ t.val.nodes[i + 1].mode = "Directory"
                   /\ t.val.nodes[i + 2].path = <<97, 48>>

\* The directories above p, deepest first, ending with the root "".
ProperAncestors(p) == LET as == Ancestors(p) IN Slice(as, 2, Len(as))

\* Every directory that has an entry of the index beneath it.
IndexDirectories(entries) == UNION {Range(ProperAncestors(p)) : p \in DOMAIN entries}

\* The directories above file a that are not above file b, deepest first;
\* with no b, all of them.
ClosedBetween(a, b) ==
    LET NotAbove(d) == b = None \/ ~PathStartsWith(b[1], d)
    IN  SelectSeq(ProperAncestors(a), NotAbove)

\* C14: the index iterator is a post-order walk.  Once it is exhausted it has
\* yielded each file exactly once, in byte-wise order of the paths; each
\* directory with an entry beneath it (the root "" included) exactly once,
\* after everything beneath it; and no other node.  Between two consecutive
\* files A and B come exactly the directories above A that are not above B,
\* deepest first, and after the last file all the directories above it.
C14_PostOrder ==
    wkPc = "done" =>
        LET n       == Len(wkNodes)
            FilePos == {i \in 1..n : wkNodes[i].kind = "File"}
            NextPos(i) == IF \E k \in FilePos : k > i
                          THEN CHOOSE k \in FilePos :
                                   k > i /\ \A l \in FilePos : l > i => k <= l
                          ELSE n + 1
        IN  /\ {wkNodes[i].path : i \in FilePos} = DOMAIN wkEntries
            /\ \A i, k \in FilePos :
                   i < k => ByteLess(wkNodes[i].path, wkNodes[k].path)
            /\ \A i \in (1..n) \ FilePos :
                   wkNodes[i].path \in IndexDirectories(wkEntries)
            /\ \A d \in IndexDirectories(wkEntries) :
                   \E i \in (1..n) \ FilePos :
                       /\ wkNodes[i].path = d
                       /\ \A j \in (1..n) \ {i} :
                              PathStartsWith(wkNodes[j].path, d) => j < i
                       /\ \A j \in (1..n) \ (FilePos \cup {i}) : wkNodes[j].path # d
            /\ \A i \in FilePos :
                   LET k == NextPos(i)
                       b == IF k <= n THEN Some(wkNodes[k].path) ELSE None
                   IN  [j \in 1..(k - i - 1) |-> wkNodes[i + j].path]
                           = ClosedBetween(wkNodes[i].path, b)

\* C14 witness: an exhausted iterator that went from "a/d/b" up through
\* "a/d" and "a" to the file "a0", and closed the root last.
C14_Witness ==
    /\ wkPc = "done"
    /\ \E i \in 1..(Len(wkNodes) - 3) :
           /\ wkNodes[i] = [kind |-> "File", path |-> <<97, SLASH, 100, SLASH, 98>>]
           /\ wkNodes[i + 1] = [kind |-> "Directory", path |-> <<97, SLASH, 100>>]
           /\ wkNodes[i + 2] = [kind |-> "Directory", path |-> <<97>>]
           /\ wkNodes[i + 3] = [kind |-> "File", path |-> <<97, 48>>]
    /\ wkNodes[Len(wkNodes)] = [kind |-> "Directory", path |-> <<>>]

----------------------------------------------------------------------------
(* Claims about the index file, checked over SpecIndex *)

\* The values a damaged byte may take.
TamperBytes == {0, 1, 127}

\* The index file with byte i replaced by v.
Tamper(buffer, i, v) == [buffer EXCEPT ![i] = v]

\* C15 (as claimed, the abort of the checksum assertion counted as a
\* failure): for a committed index file and any change of one byte before
\* the 20-byte trailer, the next Index::lock fails, with an error or an
\* abort, and yields no index.
C15_TrailerIntegrity ==
    IsSome(idxDisk) =>
        \A i \in 1..(Len(idxDisk[1]) - 20), v \in TamperBytes :
            v # idxDisk[1][i] =>
                LET r == Index_lock_read(Some(Tamper(idxDisk[1], i, v)))
                IN  ~r.ok /\ r.err \in {"Corrupt", "Panic"}

\* The paths of the entries of an index file, in file order.
RECURSIVE Index_disk_paths(_, _, _)
Index_disk_paths(b, pos, count) ==
    IF count = 0 THEN <<>>
    ELSE LET r == Entry_read(b, pos)
         IN  IF ~r.ok THEN <<>>
             ELSE <<r.val.entry.path>> \o Index_disk_paths(b, r.val.pos, count - 1)

\* Position decides order exactly as the raw bytes of the paths do.
InByteOrder(paths) ==
    \A i, j \in 1..Len(paths) : i < j <=> ByteLess(paths[i], paths[j])

\* The paths of Index::files(), in iteration order.
FilesPaths(entries) ==
    LET es == Index_files(entries) IN [i \in 1..Len(es) |-> es[i].path]

\* C16: in memory, in Index::files() and in the entry sequence of the index
\* file, entry a comes before entry b iff a.path is less than b.path in the
\* lexicographic order of the raw bytes, `/` being the byte 0x2F.
C16_ByteOrder ==
    /\ InByteOrder(FilesPaths(idxEntries))
    /\ Len(FilesPaths(idxEntries)) = Cardinality(DOMAIN idxEntries)
    /\ IsSome(idxDisk) =>
           LET b == idxDisk[1]
           IN  InByteOrder(Index_disk_paths(Slice(b, 13, Len(b)), 1, ReadBE32(b, 9)))

\* C16 witness: "a-" and "a/a" are both staged and committed, the first
\* before the second although the component "a" is less than "a-".
C16_Witness ==
    /\ IsSome(idxDisk)
    /\ FilesPaths(idxEntries) = << <<97, 45>>, <<97, SLASH, 97>> >>
    /\ LET b == idxDisk[1]
       IN  Index_disk_paths(Slice(b, 13, Len(b)), 1, ReadBE32(b, 9))
               = << <<97, 45>>, <<97, SLASH, 97>> >>

----------------------------------------------------------------------------
(* The working tree: src/workspace.rs *)

DOTGIT == <<46, 103, 105, 116>>    \* ".git"

\* The directory a path lies in.
Path_parent(p) == Ancestors(p)[2]

\* Metadata::from(fs::Metadata) for a node [mode, mtime, data] of the working
\* tree.
Workspace_metadata(node) ==
    [RepoStat(node.mtime, Len(node.data)) EXCEPT !.mode = node.mode]

\* Workspace::walk_list on a directory: its entries, without what lies under
\* `.git`.
Workspace_walk_list(work, relative) ==
    {p \in DOMAIN work : Path_parent(p) = relative /\ ~PathStartsWith(p, DOTGIT)}

\* Workspace::read
Workspace_read(work, p) == work[p].data

----------------------------------------------------------------------------
(* Status: src/command/status.rs *)

\* Index::contains_file
Index_contains_file(entries, path) == path \in DOMAIN entries

\* Index::contains_directory
Index_contains_directory(entries, path) == Index_descendants(entries, path) # <<>>

\* Index::contains
Index_contains(entries, path) ==
    Index_contains_file(entries, path) \/ Index_contains_directory(entries, path)

\* Mode::is_file
Mode_is_file(mode) == mode \in {"Regular", "Executable"}

\* is_trackable answering yes for everything.
IsTrackable_Always(work, entries, p) == TRUE

\* walk_workspace, `is_trackable`: a file not in the index, or a directory
\* with a trackable entry somewhere beneath it.
RECURSIVE IsTrackable(_, _, _)
IsTrackable(work, entries, p) ==
    IF Mode_is_file(work[p].mode) THEN ~Index_contains(entries, p)
    ELSE \E c \in Workspace_walk_list(work, p) : IsTrackable(work, entries, c)

\* walk_workspace, `recurse`: the entries of one directory, taken in key
\* order (the result does not depend on the order read_dir gives).
RECURSIVE WalkWorkspace_entries(_, _, _, _)
WalkWorkspace_entries(work, entries, list, state) ==
    IF list = <<>> THEN state
    ELSE LET relative == Head(list)
             metadata == Workspace_metadata(work[relative])
             next ==
                 IF Index_contains(entries, relative)
                 THEN IF metadata.mode = "Directory"
                      THEN WalkWorkspace_entries(
                               work, entries,
                               SortKeys(Workspace_walk_list(work, relative)), state)
                      ELSE [state EXCEPT
                               !.tracked = MapInsert(@, relative, metadata)]
                 ELSE IF IsTrackable(work, entries, relative)
                      THEN [state EXCEPT
                               !.untracked = @ \cup
                                   {IF metadata.mode = "Directory"
                                    THEN relative \o <<SLASH>> ELSE relative}]
                      ELSE state
         IN  WalkWorkspace_entries(work, entries, Tail(list), next)

\* Status::walk_workspace from the root of the working tree.
WalkWorkspace(work, entries) ==
    WalkWorkspace_entries(work, entries, SortKeys(Workspace_walk_list(work, <<>>)),
                          [tracked |-> EmptyMap, untracked |-> {}])

\* detect_changes: the guard of the first match arm, comparing ids only.
HeadMatches_IdOnly(h, entry) == h.id = entry.id

\* detect_changes: `mode == entry.metadata().mode() && id == entry.id()`.
HeadMatches(h, entry) == h.mode = entry.metadata.mode /\ h.id = entry.id

\* detect_changes: the stat comparison, taking the modification time in.
StatChanged_WithTime(new, old) ==
    new.mode # old.mode \/ new.size # old.size \/ new.mtime # old.mtime

\* detect_changes: `new.mode != old.mode || new.size != old.size`.
StatChanged(new, old) == new.mode # old.mode \/ new.size # old.size

\* detect_changes: the loop over Index::files.
RECURSIVE DetectChanges_files(_, _, _, _, _)
DetectChanges_files(es, head, tracked, work, changes) ==
    IF es = <<>> THEN changes
    ELSE LET entry == Head(es)
             path  == entry.path
             c1 == IF path \in DOMAIN head
                   THEN IF HeadMatches(head[path], entry) THEN changes
                        ELSE [changes EXCEPT
                                 !.index_head = MapInsert(@, path, "Modified")]
                   ELSE [changes EXCEPT !.index_head = MapInsert(@, path, "Added")]
             id == Id_hash(Object_to_bytes(
                       [type |-> "blob", data |-> Workspace_read(work, path)]))
             c2 == IF path \notin DOMAIN tracked
                   THEN [c1 EXCEPT !.workspace_index = MapInsert(@, path, "Deleted")]
                   ELSE IF StatChanged(tracked[path], entry.metadata)
                   THEN [c1 EXCEPT !.workspace_index = MapInsert(@, path, "Modified")]
                   ELSE IF id # entry.id
                   THEN [c1 EXCEPT !.workspace_index = MapInsert(@, path, "Modified")]
                   ELSE c1
         IN  DetectChanges_files(Tail(es), head, tracked, work, c2)

\* detect_changes: the loop, then `Deleted` for what HEAD has and the index
\* has not as a file.
DetectChanges(entries, head, tracked, work) ==
    LET c == DetectChanges_files(Index_files(entries), head, tracked, work,
                                 [index_head |-> EmptyMap, workspace_index |-> EmptyMap])
        gone == {p \in DOMAIN head : ~Index_contains_file(entries, p)}
    IN  [c EXCEPT !.index_head =
            [p \in DOMAIN @ \cup gone |-> IF p \in gone THEN "Deleted" ELSE @[p]]]

----------------------------------------------------------------------------
(* SpecStatus: `status` and `show` over one repository *)

PathF  == <<102>>                  \* "f"
PathDG == <<100, SLASH, 103>>      \* "d/g"

\* States of a file: [mode, mtime, data].
FileA       == [mode |-> "Regular",    mtime |-> 1, data |-> <<120>>]
FileTouched == [mode |-> "Regular",    mtime |-> 2, data |-> <<120>>]
FileEdited  == [mode |-> "Regular",    mtime |-> 1, data |-> <<121>>]
FileGrown   == [mode |-> "Regular",    mtime |-> 1, data |-> <<120, 120>>]
FileExec    == [mode |-> "Executable", mtime |-> 1, data |-> <<120>>]
DirNode     == [mode |-> "Directory",  mtime |-> 1, data |-> <<>>]

\* What `add` stages for a file in state st.
StatusEntry(p, st) ==
    Entry_new(Workspace_metadata(st),
              Id_hash(Object_to_bytes([type |-> "blob", data |-> st.data])), p)

\* The index holding "f" and "d/g" in the given states (None: not staged).
StatusIndex(f, g) ==
    [p \in (IF f = None THEN {} ELSE {PathF}) \cup (IF g = None THEN {} ELSE {PathDG})
        |-> IF p = PathF THEN StatusEntry(p, f[1]) ELSE StatusEntry(p, g[1])]

\* The node of a tree for a staged file, and the tree object of some nodes.
StatusNode(name, st) ==
    [path |-> name,
     id   |-> Id_hash(Object_to_bytes([type |-> "blob", data |-> st.data])),
     mode |-> st.mode]

StatusTree(nodes) == [type |-> "tree", nodes |-> Tree_new(nodes)]

\* The repository after `commit` of the index holding "f" and "d/g" in the
\* given states: the tree of "d", the root tree (the directory "d" before
\* the file "f", as walk_index pushes them) and the commit are in the store,
\* and `head` is the id write_head is given.  Nothing has been committed
\* from an empty index.
Commit_run(f, g) ==
    LET dTree  == StatusTree(<<StatusNode(<<103>>, g[1])>>)
        dNode  == [path |-> <<100>>, id |-> Database_store_plan(dTree).id,
                   mode |-> "Directory"]
        root   == StatusTree((IF g = None THEN <<>> ELSE <<dNode>>)
                             \o (IF f = None THEN <<>>
                                 ELSE <<StatusNode(PathF, f[1])>>))
        commit == [type    |-> "commit",
                   tree    |-> Database_store_plan(root).id,
                   parent  |-> None,
                   author  |-> [name |-> <<65, SP, 66>>, email |-> <<97, 64, 98>>,
                                time |-> [secs |-> 0, offset |-> 0]],
                   message |-> <<109, LF>>]
        objects == (IF g = None THEN {} ELSE {dTree}) \cup {root, commit}
    IN  IF f = None /\ g = None
        THEN [db |-> EmptyMap, head |-> None, root |-> None]
        ELSE [db   |-> [id \in {Database_store_plan(o).id : o \in objects} |->
                           Database_store_plan(
                               CHOOSE o \in objects :
                                   Database_store_plan(o).id = id).bytes],
              head |-> Some(Database_store_plan(commit).id),
              root |-> Some(Database_store_plan(root).id)]

MapMerge(m1, m2) ==
    [p \in DOMAIN m1 \cup DOMAIN m2 |-> IF p \in DOMAIN m2 THEN m2[p] ELSE m1[p]]

\* A working tree with the given files and directories, the directories
\* above them, and `.git`.
WorkOf(files, dirs) ==
    LET fs1  == MapMerge(files, [p \in {DOTGIT \o <<SLASH, 72>>} |-> FileA])
        some == DOMAIN fs1 \cup dirs
        ds   == dirs \cup (UNION {Range(ProperAncestors(p)) : p \in some} \ {<<>>})
    IN  [p \in DOMAIN fs1 \cup ds |-> IF p \in DOMAIN fs1 THEN fs1[p] ELSE DirNode]

\* What lies in the working tree besides "f" and "d/g": nothing; an empty
\* directory "u"; a file "n" and "u" holding only the empty "u/e"; the file
\* "u/e/x" and "w" holding only the empty "w/e"; the file "u/x" beside the
\* empty "u/e"; the file "d/n" beside the empty "d/e"; a file "d" where
\* the directory of "d/g" would be.
StatusExtras ==
    {[files |-> EmptyMap, dirs |-> {}],
     [files |-> EmptyMap, dirs |-> {<<117>>}],
     [files |-> [p \in {<<110>>} |-> FileA], dirs |-> {<<117, SLASH, 101>>}],
     [files |-> [p \in {<<117, SLASH, 101, SLASH, 120>>} |-> FileA],
      dirs  |-> {<<119, SLASH, 101>>}],
     [files |-> [p \in {<<117, SLASH, 120>>} |-> FileA], dirs |-> {<<117, SLASH, 101>>}],
     [files |-> [p \in {<<100, SLASH, 110>>} |-> FileA], dirs |-> {<<100, SLASH, 101>>}],
     [files |-> [p \in {<<100>>} |-> FileA], dirs |-> {}]}

\* The extras that can lie beside "d/g" in state g: the file "d" only when
\* there is no "d/g".
StatusExtrasBeside(g) ==
    {x \in StatusExtras : <<100>> \in DOMAIN x.files => g = None}

\* The working tree holding "f" and "d/g" in the given states, and extras x.
StatusWork(f, g, x) ==
    WorkOf(MapMerge([p \in (IF f = None THEN {} ELSE {PathF})
                           \cup (IF g = None THEN {} ELSE {PathDG})
                        |-> IF p = PathF THEN f[1] ELSE g[1]],
                    x.files),
           x.dirs)

\* The repository after a commit of "f" and "d/g" in some states, or
\* without any commit; HEAD names the commit, or is missing because
\* write_head, the last step of `commit`, did not happen.
InitStatus ==
    /\ IdleIndex
    /\ IdleObject
    /\ IdleRepo
    /\ IdleWalk
    /\ IdleDiff
    /\ IdleWs
    /\ IdleChanges
    /\ IdleChecksum
    /\ IdleEntry
    /\ IdleHistory
    /\ IdleMeta
    /\ \E hf \in {None, Some(FileA), Some(FileEdited), Some(FileExec)},
          hg \in {None, Some(FileA)} :
         LET c == Commit_run(hf, hg)
         IN  stDb = c.db /\ stHead \in {c.head, None} /\ stRoot = c.root
    /\ \E f \in {None, Some(FileA), Some(FileEdited), Some(FileExec)},
          g \in {None, Some(FileA), Some(FileEdited)} :
         stEntries = StatusIndex(f, g)
    /\ \E f \in {None, Some(FileA), Some(FileTouched), Some(FileEdited),
                 Some(FileGrown), Some(FileExec)},
          g \in {None, Some(FileA), Some(FileEdited)} :
         \E x \in StatusExtrasBeside(g) :
             stWork = StatusWork(f, g, x)
    /\ stMem = None
    /\ stOut = None

\* The commands that read the committed tree.  "run" is Status::run, and
\* "tree" the three calls of Status::run with walk_head given a root tree;
\* "show" is Show::run without an id and "show_id" with the id of a root
\* tree.
Commands == {"run", "tree", "show", "show_id"}

NoLocals(via) ==
    [via |-> via, pc |-> "done", head |-> EmptyMap,
     workspace |-> [tracked |-> EmptyMap, untracked |-> {}]]

\* Every command reading HEAD first, and failing without it.
Command_start_HeadFirst(via) ==
    IF stHead = None THEN [return |-> TRUE, res |-> Err("Expected HEAD commit")]
    ELSE [return |-> FALSE,
          item |-> Load_item(IF via \in {"tree", "show_id"} THEN stRoot[1]
                             ELSE stHead[1],
                             IF via = "show_id" THEN ShowTreeTakes
                             ELSE IF via = "show" THEN ShowRunTakes
                             ELSE WalkHeadTakes,
                             IF via \in {"show", "show_id"} THEN ShowTreeTakes
                             ELSE WalkHeadTakes)]

\* Up to the first Database::load: either the command returns at once, or
\* this is what it loads first.  Status::run reads HEAD and returns Ok(())
\* when there is none; Show::run with an id goes to show_tree without
\* reading HEAD, and without an id it wants HEAD's commit.
Command_start(via) ==
    IF via = "run"
    THEN IF stHead = None THEN [return |-> TRUE, res |-> Ok(None)]
         ELSE [return |-> FALSE,
               item |-> Load_item(stHead[1], WalkHeadTakes, WalkHeadTakes)]
    ELSE IF via = "tree"
    THEN [return |-> FALSE, item |-> Load_item(stRoot[1], WalkHeadTakes, WalkHeadTakes)]
    ELSE IF via = "show_id"
    THEN [return |-> FALSE, item |-> Load_item(stRoot[1], ShowTreeTakes, ShowTreeTakes)]
    ELSE IF stHead = None THEN [return |-> TRUE, res |-> Err("Expected HEAD commit")]
    ELSE [return |-> FALSE, item |-> Load_item(stHead[1], ShowRunTakes, ShowTreeTakes)]

\* Status::run up to walk_head, or Show::run as a whole.  An error of
\* walk_head ends `status`, otherwise walk_workspace comes next; `show` has
\* printed a line for each file it came to.
CommandRun ==
    /\ stMem = None
    /\ \E via \in Commands :
         /\ via \in {"tree", "show_id"} => IsSome(stRoot)
         /\ \E c \in {Command_start(via)} :
              IF c.return
              THEN /\ stMem' = Some(NoLocals(via))
                   /\ stOut' = Some([via |-> via, res |-> c.res, lines |-> <<>>])
              ELSE \E r \in {Load_recurse(stDb, <<c.item>>, <<>>)} :
                       IF via \in {"show", "show_id"}
                       THEN /\ stMem' = Some(NoLocals(via))
                            /\ stOut' = Some([via   |-> via,
                                              res   |-> IF r.res.ok THEN Ok(None)
                                                        ELSE r.res,
                                              lines |-> Show_lines(r.files)])
                       ELSE IF r.res.ok
                       THEN /\ stMem' = Some([NoLocals(via) EXCEPT
                                                 !.pc = "walk_workspace",
                                                 !.head = WalkHead_state(r.files)])
                            /\ UNCHANGED stOut
                       ELSE /\ stMem' = Some(NoLocals(via))
                            /\ stOut' = Some([via |-> via, res |-> r.res,
                                              lines |-> <<>>])
    /\ UNCHANGED <<stDb, stHead, stRoot, stEntries, stWork, statusOthers>>

\* Status::run, second call: walk_workspace.
StatusWalkWorkspace ==
    /\ IsSome(stMem)
    /\ stMem[1].pc = "walk_workspace"
    /\ stMem' = Some([stMem[1] EXCEPT !.pc = "detect_changes",
                                      !.workspace = WalkWorkspace(stWork, stEntries)])
    /\ UNCHANGED <<stDb, stHead, stRoot, stEntries, stWork, stOut, statusOthers>>

\* Status::run, third call: detect_changes, and the report.
StatusDetectChanges ==
    /\ IsSome(stMem)
    /\ stMem[1].pc = "detect_changes"
    /\ LET ch == DetectChanges(stEntries, stMem[1].head,
                               stMem[1].workspace.tracked, stWork)
       IN  stOut' = Some([via |-> stMem[1].via,
                          res |-> Ok(Some([index_vs_head |-> ch.index_head,
                                           work_vs_index |-> ch.workspace_index,
                                           untracked |-> stMem[1].workspace.untracked])),
                          lines |-> <<>>])
    /\ stMem' = Some([stMem[1] EXCEPT !.pc = "done"])
    /\ UNCHANGED <<stDb, stHead, stRoot, stEntries, stWork, statusOthers>>

NextStatus == CommandRun \/ StatusWalkWorkspace \/ StatusDetectChanges

SpecStatus == InitStatus /\ [][NextStatus]_vars

\* The regular files of the working tree outside `.git`: path |-> node.
WorkFiles(work) ==
    [p \in {q \in DOMAIN work : Mode_is_file(work[q].mode) /\ ~PathStartsWith(q, DOTGIT)}
        |-> work[p]]

\* HEAD's tree, the index and the working tree hold the same files with the
\* same content and mode.
AllSame ==
    /\ IsSome(stHead)
    /\ IsSome(stRoot)
    /\ WalkHead(stDb, stRoot[1]) = Ok(IndexView(stEntries))
    /\ DOMAIN WorkFiles(stWork) = DOMAIN stEntries
    /\ \A p \in DOMAIN stEntries :
           /\ stWork[p].mode = stEntries[p].metadata.mode
           /\ Id_hash(Object_to_bytes([type |-> "blob", data |-> stWork[p].data]))
                  = stEntries[p].id

NoChanges ==
    [index_vs_head |-> EmptyMap, work_vs_index |-> EmptyMap, untracked |-> {}]

\* C17 (as claimed): when HEAD's tree, the index and the working tree hold
\* the same files with the same content and mode, `status` succeeds and its
\* three change sets, index against HEAD, working tree against index and
\* untracked, are empty.
C17_StatusSymmetry ==
    (IsSome(stOut) /\ stOut[1].via = "run" /\ AllSame) =>
        stOut[1].res = Ok(Some(NoChanges))

\* The same for the three functions applied to the root tree of HEAD's
\* commit.
StatusSymmetryOfTree ==
    (IsSome(stOut) /\ stOut[1].via = "tree" /\ AllSame) =>
        stOut[1].res = Ok(Some(NoChanges))

\* C18: after detect_changes, index_vs_head holds Added for a path exactly
\* when the index has it and HEAD has not, Modified exactly when both have
\* it with a different id or mode, Deleted exactly when HEAD has it and the
\* index has no file entry for it, and nothing for any other path.
C18_IndexVsHead ==
    (IsSome(stOut) /\ stOut[1].res.ok /\ IsSome(stOut[1].res.val)) =>
        LET ih   == stOut[1].res.val[1].index_vs_head
            head == WalkHead(stDb, stRoot[1]).val
            idx  == IndexView(stEntries)
            At(p) == IF p \in DOMAIN ih THEN ih[p] ELSE "none"
        IN  \A p \in DOMAIN ih \cup DOMAIN head \cup DOMAIN idx :
                /\ At(p) = "Added" <=> (p \in DOMAIN idx /\ p \notin DOMAIN head)
                /\ At(p) = "Modified" <=>
                       (p \in DOMAIN idx /\ p \in DOMAIN head /\ idx[p] # head[p])
                /\ At(p) = "Deleted" <=> (p \in DOMAIN head /\ p \notin DOMAIN idx)
                /\ At(p) \in {"Added", "Modified", "Deleted", "none"}

\* C18 witness: "f" is staged executable and HEAD has it regular with the
\* same content, and "d/g" is in HEAD but no longer in the index.
C18_Witness ==
    /\ IsSome(stOut) /\ stOut[1].res.ok /\ IsSome(stOut[1].res.val)
    /\ stOut[1].res.val[1].index_vs_head
           = [p \in {PathF, PathDG} |-> IF p = PathF THEN "Modified" ELSE "Deleted"]
    /\ stEntries = StatusIndex(Some(FileExec), None)

\* C19: after detect_changes, work_vs_index holds Deleted for an index entry
\* exactly when the working tree has no file at its path, Modified exactly
\* when the file is there and its mode or size differs from the entry's or,
\* both being equal, its content hashes to another id; a file that differs
\* from its entry in timestamps only gets no entry, and no path outside the
\* index gets one.
C19_WorkVsIndex ==
    (IsSome(stOut) /\ stOut[1].res.ok /\ IsSome(stOut[1].res.val)) =>
        LET wi    == stOut[1].res.val[1].work_vs_index
            files == WorkFiles(stWork)
            At(p) == IF p \in DOMAIN wi THEN wi[p] ELSE "none"
            Differs(p) ==
                \/ files[p].mode # stEntries[p].metadata.mode
                \/ Len(files[p].data) # stEntries[p].metadata.size
                \/ Id_hash(Object_to_bytes([type |-> "blob", data |-> files[p].data]))
                       # stEntries[p].id
        IN  /\ DOMAIN wi \subseteq DOMAIN stEntries
            /\ \A p \in DOMAIN stEntries :
                   /\ At(p) = "Deleted" <=> p \notin DOMAIN files
                   /\ At(p) = "Modified" <=> (p \in DOMAIN files /\ Differs(p))
                   /\ At(p) \in {"Deleted", "Modified", "none"}

\* C19 witness: "f" was touched (new timestamp, same content) and has no
\* entry, while "d/g" was edited to other content of the same size.
C19_Witness ==
    /\ IsSome(stOut) /\ stOut[1].res.ok /\ IsSome(stOut[1].res.val)
    /\ stEntries = StatusIndex(Some(FileA), Some(FileA))
    /\ PathF \in DOMAIN stWork
    /\ stWork[PathF] = FileTouched
    /\ stOut[1].res.val[1].work_vs_index = [p \in {PathDG} |-> "Modified"]

\* C20: a directory of the working tree that the index does not contain, and
\* that `status` comes to (it lies at the top or in a directory the index
\* contains), is in `untracked`, with a trailing `/`, exactly when a file
\* lies somewhere beneath it; nothing beneath a reported directory is
\* listed, and a directory holding only empty directories is not reported.
C20_TrackablePruning ==
    (IsSome(stOut) /\ stOut[1].res.ok /\ IsSome(stOut[1].res.val)) =>
        LET un   == stOut[1].res.val[1].untracked
            dirs == {d \in DOMAIN stWork :
                        stWork[d].mode = "Directory" /\ ~PathStartsWith(d, DOTGIT)}
            Reached(d) ==
                \A a \in Range(ProperAncestors(d)) \ {<<>>} :
                    Index_contains(stEntries, a)
            HasFile(d) ==
                \E p \in DOMAIN WorkFiles(stWork) : p # d /\ PathStartsWith(p, d)
        IN  /\ \A d \in dirs :
                   (d \o <<SLASH>>) \in un
                       <=> (~Index_contains(stEntries, d) /\ Reached(d) /\ HasFile(d))
            /\ \A d \in dirs : d \notin un
            /\ \A d \in dirs, u \in un :
                   ((d \o <<SLASH>>) \in un /\ u # d \o <<SLASH>>)
                       => ~BytesStartsWith(u, d \o <<SLASH>>)

\* C20 witness: "u/" is reported for the file "u/e/x" two levels down and
\* nothing beneath it is, while "w", which holds only the empty "w/e", is
\* not reported.
C20_Witness ==
    /\ IsSome(stOut) /\ stOut[1].res.ok /\ IsSome(stOut[1].res.val)
    /\ <<117, SLASH, 101, SLASH, 120>> \in DOMAIN stWork
    /\ <<119, SLASH, 101>> \in DOMAIN stWork
    /\ stOut[1].res.val[1].untracked = {<<117, SLASH>>}

----------------------------------------------------------------------------
(* SpecRepo: References::read_head *)

HeadLock == WriteLock_source(HeadPath)

\* HEAD as a pair: whether it exists, and its content.
HeadFile(f) == IF HeadPath \in DOMAIN f THEN Some(f[HeadPath]) ELSE None

\* C21: no step of a process running read_head changes whether HEAD exists
\* or what it holds; and when read_head returns after it took the lock,
\* `HEAD.lock` does not exist, and unless an I/O error or a panic cut it
\* short it returns Ok: None exactly when HEAD does not exist, and
\* otherwise the id HEAD holds.
C21_ReadHeadFrame ==
    [][\A p \in Procs :
          (cmd'[p].op = "read_head" /\ pc'[p] # pc[p]) =>
              /\ HeadFile(fs') = HeadFile(fs)
              /\ (pc'[p] = "done" /\ res'[p] # Some(Err("AlreadyExists"))) =>
                     /\ HeadLock \notin DOMAIN fs'
                     /\ p \notin faulted' =>
                            /\ res'[p][1].ok
                            /\ res'[p][1].val = None <=> HeadFile(fs') = None
                            /\ HeadFile(fs') # None =>
                                   HeadFile(fs') =
                                       Some(Id_write_hex(res'[p][1].val[1]))]_vars

\* C21 witness: read_head has returned the id that write_head stored, HEAD
\* still holds it and no `HEAD.lock` is left.
C21_Witness ==
    \E p \in Procs, c \in WriteHeadCmds :
        /\ cmd[p].op = "read_head"
        /\ pc[p] = "done"
        /\ res[p] = Some(Ok(Some(c.id)))
        /\ HeadFile(fs) = Some(Id_write_hex(c.id))
        /\ HeadLock \notin DOMAIN fs

----------------------------------------------------------------------------
(* SpecDiff: myers, src/diff.rs, one turn of the inner loop per step *)

MaxSeqLen == 3     \* elements per input sequence

\* Index and IndexMut for Ring: the slot of index k in the Vec, and whether
\* the Vec has it.
Ring_slot(v, k) == Len(v) \div 2 + k + 1
Ring_has(v, k) == Ring_slot(v, k) \in 1..Len(v)
Ring_index(v, k) == v[Ring_slot(v, k)]

\* The `while` of myers: follow the diagonal while the elements agree.  An
\* index past the end of `b` panics.
RECURSIVE Myers_snake(_, _, _, _)
Myers_snake(a, b, x, y) ==
    IF x < Len(a) /\ y < Len(b)
    THEN IF x < 0 \/ y < 0 THEN [ok |-> FALSE, x |-> x]
         ELSE IF a[x + 1] = b[y + 1] THEN Myers_snake(a, b, x + 1, y + 1)
         ELSE [ok |-> TRUE, x |-> x]
    ELSE [ok |-> TRUE, x |-> x]

\* The last d of the outer loop, `for d in 0..max`.
Myers_last(max) == max - 1

\* One turn of `for k in (-d..=d).step_by(2)`, from the choice of x to the
\* test that ends the search: the next v, d, k and where myers stands.
Myers_body(a, b, v, d, k) ==
    LET n    == Len(a)
        m    == Len(b)
        down == k = -d \/ (k # d /\ Ring_index(v, k - 1) < Ring_index(v, k + 1))
        need == IF k = -d THEN {k + 1}
                ELSE IF k = d THEN {k - 1}
                ELSE {k - 1, k + 1}
        x0   == IF down THEN Ring_index(v, k + 1) ELSE Ring_index(v, k - 1) + 1
        s    == Myers_snake(a, b, x0, x0 - k)
        x    == s.x
        y    == x - k
        stop == [v |-> v, d |-> d, k |-> k, pc |-> "panic", out |-> None]
    IN  IF \E i \in need \cup {k} : ~Ring_has(v, i) THEN stop
        ELSE IF ~s.ok THEN stop
        ELSE IF x >= n /\ y >= m
             THEN [v |-> [v EXCEPT ![Ring_slot(v, k)] = x], d |-> d, k |-> k,
                   pc |-> "done", out |-> Some(d)]
        ELSE [v   |-> [v EXCEPT ![Ring_slot(v, k)] = x],
              d   |-> IF k + 2 <= d THEN d ELSE d + 1,
              k   |-> IF k + 2 <= d THEN k + 2 ELSE -(d + 1),
              pc  |-> "loop",
              out |-> None]

\* myers from the state (v, d, k) of its loops to its end: Some(d) when it
\* returns, None when it reaches `unreachable!()` or an index panics.
RECURSIVE Myers_from(_, _, _, _, _)
Myers_from(a, b, v, d, k) ==
    IF d > Myers_last(Len(a) + Len(b)) THEN None
    ELSE TheOne({ IF r.pc = "loop" THEN Myers_from(a, b, r.v, r.d, r.k)
                  ELSE r.out :
                  r \in {Myers_body(a, b, v, d, k)} })

\* myers
Myers(a, b) == Myers_from(a, b, Zeros(2 * (Len(a) + Len(b)) + 1), 0, 0)

\* The sequences over "A" and "B" of up to MaxSeqLen elements, and the pair
\* of the smoke test: "ABCABBA" and "CBABAC".
DiffSeqs == SeqsUpTo({65, 66}, MaxSeqLen)
SmokeA == <<65, 66, 67, 65, 66, 66, 65>>
SmokeB == <<67, 66, 65, 66, 65, 67>>

InitDiff ==
    /\ IdleIndex
    /\ IdleObject
    /\ IdleRepo
    /\ IdleWalk
    /\ IdleStatus
    /\ IdleWs
    /\ IdleChanges
    /\ IdleChecksum
    /\ IdleEntry
    /\ IdleHistory
    /\ IdleMeta
    /\ \E ab \in (DiffSeqs \X DiffSeqs) \cup {<<SmokeA, SmokeB>>, <<SmokeB, SmokeA>>} :
         dfA = ab[1] /\ dfB = ab[2]
    /\ dfV = <<>>
    /\ dfD = 0
    /\ dfK = 0
    /\ dfPc = "idle"
    /\ dfOut = None

\* myers up to its loops: `v` is allocated.
MyersCall ==
    /\ dfPc = "idle"
    /\ dfV' = Zeros(2 * (Len(dfA) + Len(dfB)) + 1)
    /\ dfPc' = "loop"
    /\ UNCHANGED <<dfA, dfB, dfD, dfK, dfOut, diffOthers>>

\* One turn of the inner loop.
MyersStep ==
    /\ dfPc = "loop"
    /\ dfD <= Myers_last(Len(dfA) + Len(dfB))
    /\ \E r \in {Myers_body(dfA, dfB, dfV, dfD, dfK)} :
         /\ dfV' = r.v
         /\ dfD' = r.d
         /\ dfK' = r.k
         /\ dfPc' = r.pc
         /\ dfOut' = r.out
    /\ UNCHANGED <<dfA, dfB, diffOthers>>

\* The outer loop has run out: `unreachable!()`.
MyersUnreachable ==
    /\ dfPc = "loop"
    /\ dfD > Myers_last(Len(dfA) + Len(dfB))
    /\ dfPc' = "panic"
    /\ UNCHANGED <<dfA, dfB, dfV, dfD, dfK, dfOut, diffOthers>>

NextDiff == MyersCall \/ MyersStep \/ MyersUnreachable

SpecDiff == InitDiff /\ [][NextDiff]_vars

\* The length of the longest common subsequence of a[i..] and b[j..].
RECURSIVE Lcs(_, _, _, _)
Lcs(a, b, i, j) ==
    IF i > Len(a) \/ j > Len(b) THEN 0
    ELSE IF a[i] = b[j] THEN 1 + Lcs(a, b, i + 1, j + 1)
    ELSE LET p == Lcs(a, b, i + 1, j)
             q == Lcs(a, b, i, j + 1)
         IN  IF p < q THEN q ELSE p

\* The least number of insertions and deletions that turn a into b.
EditDistance(a, b) == Len(a) + Len(b) - 2 * Lcs(a, b, 1, 1)

MyersEnded == dfPc \in {"done", "panic"}

\* C22 (as claimed): myers(a, b) returns the least number of single-element
\* insertions and deletions that turn a into b, for all a and b.
C22_MinimalEdits ==
    MyersEnded => dfOut = Some(EditDistance(dfA, dfB))

\* The part of C22 that the smoke test states: myers("ABCABBA", "CBABAC")
\* is 5; and myers is right whenever it returns.
SmokeAndPartial ==
    /\ (MyersEnded /\ dfA = SmokeA /\ dfB = SmokeB) => dfOut = Some(5)
    /\ dfPc = "done" => dfOut = Some(EditDistance(dfA, dfB))

\* C23 (as claimed): myers(a, b) and myers(b, a) return the same number,
\* and myers(a, a) returns 0, the empty sequence included.
C23_SymmetryIdentity ==
    MyersEnded =>
        /\ IsSome(dfOut)
        /\ dfOut = Myers(dfB, dfA)
        /\ dfA = dfB => dfOut = Some(0)

\* Whether it returns or panics, myers ends the same way on (b, a) as on
\* (a, b), and it returns 0 on (a, a) unless a is empty.
SymmetryOfOutcome ==
    MyersEnded =>
        /\ dfOut = Myers(dfB, dfA)
        /\ (dfA = dfB /\ dfA # <<>>) => dfOut = Some(0)

\* myers panics exactly on the pairs with no common element, whose
\* distance is the sum of the lengths.
PanicsWhenDisjoint ==
    MyersEnded =>
        (dfPc = "panic" <=> EditDistance(dfA, dfB) = Len(dfA) + Len(dfB))

----------------------------------------------------------------------------
(* SpecWorkspace: Workspace::walk_list and walk_tree over one working tree,
   one call of `next` per step *)

\* What lies at a path: a regular file, a directory, a symbolic link (to the
\* path `target`) or a socket; exec tells whether a permission bit of 0o111
\* is set.
FileNode(exec)   == [type |-> "file", exec |-> exec, target |-> <<>>]
DirEntryNode     == [type |-> "dir", exec |-> TRUE, target |-> <<>>]
SymlinkNode(to)  == [type |-> "symlink", exec |-> TRUE, target |-> to]
SocketNode       == [type |-> "socket", exec |-> FALSE, target |-> <<>>]

\* fs::metadata, which follows a symbolic link, and DirEntry::metadata,
\* which does not.  The root (the empty relative path) is a directory.
Fs_metadata(tree, p) ==
    IF p = <<>> THEN Ok(DirEntryNode)
    ELSE IF p \notin DOMAIN tree THEN Err("NotFound")
    ELSE IF tree[p].type # "symlink" THEN Ok(tree[p])
    ELSE IF tree[p].target \in DOMAIN tree THEN Ok(tree[tree[p].target])
    ELSE Err("NotFound")

DirEntry_metadata(tree, p) == tree[p]

\* fs::read_dir: the entries of a directory, in no particular order.
Fs_read_dir(tree, dir) == {p \in DOMAIN tree : Path_parent(p) = dir}

\* Mode::from(&fs::Metadata)
Mode_from(node) ==
    IF node.type = "dir" THEN "Directory"
    ELSE IF node.exec THEN "Executable"
    ELSE "Regular"

\* workspace::Entry, with the path relative to the root and the mode of its
\* Metadata.
Workspace_entry(p, node) == [path |-> p, mode |-> Mode_from(node)]

\* The guard of the first match arm of both iterators: the path relative to
\* the root starts with the component `.git`.
Walk_skips(p) == PathStartsWith(p, DOTGIT)

\* "f", "s", "l", "k", "x"; ".git/H"; "s/g", "s/l", "s/.git", "s/.git/c"
WsF  == <<102>>
WsS  == <<115>>
WsL  == <<108>>
WsK  == <<107>>
WsX  == <<120>>
WsGitH  == DOTGIT \o <<SLASH, 72>>
WsSG    == WsS \o <<SLASH, 103>>
WsSL    == WsS \o <<SLASH, 108>>
WsSGit  == WsS \o <<SLASH>> \o DOTGIT
WsSGitC == WsSGit \o <<SLASH, 99>>

\* The working trees: every one holds `.git` with a file in it, the file
\* "f" and the directory "s"; each may hold the link "l" to "f", the socket
\* "k", the file "s/g", the link "s/l" to "f", and a second repository in
\* "s" with its own `.git`.
WsBase ==
    [p \in {DOTGIT, WsGitH, WsF, WsS} |->
        IF p \in {DOTGIT, WsS} THEN DirEntryNode ELSE FileNode(p = WsF)]

WsOptions ==
    {[p \in {WsL} |-> SymlinkNode(WsF)],
     [p \in {WsK} |-> SocketNode],
     [p \in {WsSG} |-> FileNode(FALSE)],
     [p \in {WsSL} |-> SymlinkNode(WsF)],
     [p \in {WsSGit, WsSGitC} |-> IF p = WsSGit THEN DirEntryNode ELSE FileNode(FALSE)]}

RECURSIVE MapMergeAll(_)
MapMergeAll(S) ==
    IF S = {} THEN EmptyMap
    ELSE LET m == CHOOSE x \in S : TRUE
         IN  MapMerge(m, MapMergeAll(S \ {m}))

WsTrees == {MapMerge(WsBase, MapMergeAll(O)) : O \in SUBSET WsOptions}

WsStarts == {<<>>, WsS, DOTGIT, WsGitH, WsF, WsL, WsK, WsX}

InitWs ==
    /\ IdleIndex
    /\ IdleObject
    /\ IdleRepo
    /\ IdleWalk
    /\ IdleStatus
    /\ IdleDiff
    /\ IdleChanges
    /\ IdleChecksum
    /\ IdleEntry
    /\ IdleHistory
    /\ IdleMeta
    /\ wsTree \in WsTrees
    /\ wsStart \in WsStarts
    /\ wsKind \in {"list", "tree"}
    /\ wsStack = <<>>
    /\ wsYield = {}
    /\ wsSeen = {}
    /\ wsPc = "idle"
    /\ wsErr = None

\* Workspace::walk: the metadata of the starting path decides between a
\* WalkFile, the walker over read_dir, and `unimplemented!`.
WorkspaceWalk ==
    /\ wsPc = "idle"
    /\ wsSeen' = wsSeen \cup {wsStart}
    /\ \E m \in {Fs_metadata(wsTree, wsStart)} :
         IF ~m.ok
         THEN wsPc' = "error" /\ wsErr' = Some(m.err) /\ UNCHANGED wsStack
         ELSE IF m.val.type = "file"
         THEN wsPc' = "file" /\ UNCHANGED <<wsStack, wsErr>>
         ELSE IF m.val.type = "dir"
         THEN /\ wsPc' = "iter"
              /\ wsStack' = <<Fs_read_dir(wsTree, wsStart)>>
              /\ UNCHANGED wsErr
         ELSE wsPc' = "panic" /\ UNCHANGED <<wsStack, wsErr>>
    /\ UNCHANGED <<wsTree, wsStart, wsKind, wsYield, wsOthers>>

\* Iterator::next for WalkFile, first call: the entry made by walk.
WalkFileNext ==
    /\ wsPc = "file"
    /\ wsYield' = wsYield \cup
           {Workspace_entry(wsStart, Fs_metadata(wsTree, wsStart).val)}
    /\ wsPc' = "end"
    /\ UNCHANGED <<wsTree, wsStart, wsKind, wsStack, wsSeen, wsErr, wsOthers>>

\* Iterator::next for WalkList: entries under `.git` are passed over; the
\* next other entry is yielded with its own metadata, whatever its type;
\* None once read_dir has no more.
WalkListNext ==
    /\ wsPc = "iter"
    /\ wsKind = "list"
    /\ LET left == {p \in wsStack[1] : ~Walk_skips(p)}
       IN  IF left = {}
           THEN /\ wsPc' = "end"
                /\ wsStack' = <<{}>>
                /\ UNCHANGED <<wsYield, wsSeen>>
           ELSE \E p \in left :
                    /\ wsStack' = <<left \ {p}>>
                    /\ wsSeen' = wsSeen \cup {p}
                    /\ wsYield' = wsYield \cup
                           {Workspace_entry(p, DirEntry_metadata(wsTree, p))}
                    /\ UNCHANGED wsPc
    /\ UNCHANGED <<wsTree, wsStart, wsKind, wsErr, wsOthers>>

\* Iterator::next for WalkTree: exhausted ReadDirs are popped and entries
\* under `.git` passed over; a file is yielded, a directory is opened and
\* yielded, anything else is `unimplemented!`; None once the stack is
\* empty.
WalkTreeNext ==
    /\ wsPc = "iter"
    /\ wsKind = "tree"
    /\ LET open == SelectSeq(wsStack, LAMBDA R : \E p \in R : ~Walk_skips(p))
           top  == {p \in open[Len(open)] : ~Walk_skips(p)}
           rest == SubSeq(open, 1, Len(open) - 1)
       IN  IF open = <<>>
           THEN /\ wsPc' = "end"
                /\ wsStack' = <<>>
                /\ UNCHANGED <<wsYield, wsSeen>>
           ELSE \E p \in top :
                    LET node == DirEntry_metadata(wsTree, p)
                    IN  /\ wsSeen' = wsSeen \cup {p}
                        /\ IF node.type = "file"
                           THEN /\ wsYield' = wsYield \cup {Workspace_entry(p, node)}
                                /\ wsStack' = Append(rest, top \ {p})
                                /\ UNCHANGED wsPc
                           ELSE IF node.type # "dir"
                           THEN /\ wsPc' = "panic"
                                /\ wsStack' = Append(rest, top \ {p})
                                /\ UNCHANGED wsYield
                           ELSE /\ wsYield' = wsYield \cup {Workspace_entry(p, node)}
                                /\ wsStack' = Append(rest, top \ {p})
                                                  \o <<Fs_read_dir(wsTree, p)>>
                                /\ UNCHANGED wsPc
    /\ UNCHANGED <<wsTree, wsStart, wsKind, wsErr, wsOthers>>

NextWs == WorkspaceWalk \/ WalkFileNext \/ WalkListNext \/ WalkTreeNext

SpecWorkspace == InitWs /\ [][NextWs]_vars

\* The path is a `.git` directory or lies beneath one.
InDotGit(p) == DOTGIT \in Range(Components(p))

\* C24 (as claimed): whatever the working tree and the starting path,
\* neither walker yields an entry that is a `.git` directory or lies
\* beneath one.
C24_NeverIntoDotGit ==
    \A e \in wsYield : ~InDotGit(e.path)

\* What does hold: a walk that starts at a directory outside `.git` yields
\* nothing from the `.git` at the root of the working tree.
RootDotGitSkipped ==
    Fs_metadata(wsTree, wsStart) = Ok(DirEntryNode) =>
        \A e \in wsYield : ~PathStartsWith(e.path, DOTGIT)

\* File types the core supports.
Supported(node) == node.type \in {"file", "dir"}

\* C25 (as claimed): an entry that is neither a regular file nor a
\* directory, the starting path included, is never yielded as a file entry,
\* and once the walk has come to one it has failed with the error value
\* UnsupportedFileType.
C25_UnsupportedFileType ==
    /\ \A e \in wsYield : Mode_is_file(e.mode) => Supported(wsTree[e.path])
    /\ (\E p \in wsSeen : p \in DOMAIN wsTree /\ ~Supported(wsTree[p])) =>
           (wsPc = "error" /\ wsErr = Some("UnsupportedFileType"))

----------------------------------------------------------------------------
(* SpecStatus: the commands without HEAD *)

\* What `show` prints for the tree `id`: one line for each file in it.
ShowsTree(lines, id) ==
    LET head == WalkHead(stDb, id)
    IN  /\ head.ok
        /\ Len(lines) = Cardinality(DOMAIN head.val)
        /\ Range(lines) =
               {[mode |-> Mode_as_str(head.val[p].mode), id |-> head.val[p].id,
                 path |-> Path_file_name(p)] : p \in DOMAIN head.val}

\* C26: when HEAD does not exist, `status` succeeds and reports nothing,
\* whatever the index and the working tree hold, and `show` without an id
\* fails with an error; `show` with the id of a tree succeeds and prints
\* that tree, whether HEAD exists or not.
C26_MissingHead ==
    IsSome(stOut) =>
        /\ (stHead = None /\ stOut[1].via = "run") =>
               (stOut[1].res = Ok(None) /\ stOut[1].lines = <<>>)
        /\ (stHead = None /\ stOut[1].via = "show") =>
               (~stOut[1].res.ok /\ stOut[1].lines = <<>>)
        /\ stOut[1].via = "show_id" =>
               (stOut[1].res = Ok(None) /\ ShowsTree(stOut[1].lines, stRoot[1]))

\* C26 witness: HEAD is missing, the store holds the trees of a commit of
\* "f" and "d/g", and `show` with the root tree's id has printed "d/g" and
\* then "f", each by its name.
C26_Witness ==
    /\ IsSome(stOut)
    /\ stHead = None
    /\ stOut[1].via = "show_id"
    /\ stOut[1].res = Ok(None)
    /\ stOut[1].lines =
           << [mode |-> <<49, 48, 48, 54, 52, 52>>,
               id   |-> Id_hash(Object_to_bytes([type |-> "blob", data |-> <<120>>])),
               path |-> <<103>>],
              [mode |-> <<49, 48, 48, 55, 53, 53>>,
               id   |-> Id_hash(Object_to_bytes([type |-> "blob", data |-> <<120>>])),
               path |-> <<102>>] >>


----------------------------------------------------------------------------
(* The exact effect of Index::insert *)

\* The entries Index::insert(_, _, path) is to remove from `before`: those at
\* a proper ancestor of `path` and those beneath `path`.
InsertConflicts(before, path) ==
    {k \in DOMAIN before : ProperPathPrefix(k, path) \/ ProperPathPrefix(path, k)}

\* C27: Index::insert(metadata, id, path) removes exactly the entries whose
\* path is a proper ancestor of `path` or lies under `path/`, sets the entry
\* at `path` to the new one and leaves every other entry as it was, siblings
\* that share a byte prefix with `path` included.
C27_InsertFrame ==
    IsSome(idxLast) =>
        LET path   == idxLast[1].path
            before == idxLast[1].before
        IN  /\ DOMAIN idxEntries =
                   (DOMAIN before \ InsertConflicts(before, path)) \cup {path}
            /\ idxEntries[path] = Entry_new(idxLast[1].metadata, idxLast[1].id, path)
            /\ \A k \in DOMAIN idxEntries \ {path} : idxEntries[k] = before[k]

\* C27 witness: "a" has just been inserted where "a-" and "a/a" were the
\* entries: the descendant "a/a" is gone and the sibling "a-", which sorts
\* between "a" and "a/a", is kept.
C27_Witness ==
    /\ IsSome(idxLast)
    /\ idxLast[1].path = <<97>>
    /\ DOMAIN idxLast[1].before = {<<97, 45>>, <<97, SLASH, 97>>}
    /\ DOMAIN idxEntries = {<<97>>, <<97, 45>>}


----------------------------------------------------------------------------
(* SpecChanges: iterating a change set (src/command/status.rs, ChangesIter) *)

IndexHeadChanges      == {"Added", "Deleted", "Modified"}
WorkspaceIndexChanges == {"Deleted", "Modified"}

\* The paths of the change sets: "a-", "a/a" and "ab", in byte order.
ChangePaths == {<<97, 45>>, <<97, SLASH, 97>>, <<97, 98>>}

\* Every map from some of the paths to one of the changes.
ChangeMaps(changes) ==
    UNION {[ps -> changes] : ps \in SUBSET ChangePaths}

\* A comparison of two paths as ChangesIter::next would make it on
\* std::path::Path: component by component.
ChangesIter_cmp_ComponentWise(a, b) ==
    IF a = b THEN "Equal"
    ELSE IF KeyLess_ComponentWise(a, b) THEN "Less"
    ELSE "Greater"

\* `index_head_path.cmp(&workspace_index_path)` on two &util::PathBuf: Ord for
\* util::PathBuf, the order of the raw bytes.
ChangesIter_cmp(a, b) ==
    IF a = b THEN "Equal"
    ELSE IF KeyLess(a, b) THEN "Less"
    ELSE "Greater"

\* Peekable::peek on btree_map::Iter after `taken` calls of next: the next
\* key and its value, if any is left.
ChangesIter_peek(map, taken) ==
    LET keys == SortKeys(DOMAIN map)
    IN  IF taken < Len(keys)
        THEN Some([path |-> keys[taken + 1], change |-> map[keys[taken + 1]]])
        ELSE None

\* ChangesIter::next: the item returned (None at the end) and how many
\* entries each of the two iterators has given up after the call.
ChangesIter_next(ih, wi, i, w) ==
    LET a == ChangesIter_peek(ih, i)
        b == ChangesIter_peek(wi, w)
        OnlyHead == [item |-> Some([path |-> a[1].path,
                                    index_head |-> Some(a[1].change),
                                    workspace_index |-> None]),
                     i |-> i + 1, w |-> w]
        OnlyWork == [item |-> Some([path |-> b[1].path,
                                    index_head |-> None,
                                    workspace_index |-> Some(b[1].change)]),
                     i |-> i, w |-> w + 1]
    IN  IF a = None /\ b = None THEN [item |-> None, i |-> i, w |-> w]
        ELSE IF b = None THEN OnlyHead
        ELSE IF a = None THEN OnlyWork
        ELSE CASE ChangesIter_cmp(a[1].path, b[1].path) = "Less" -> OnlyHead
               [] ChangesIter_cmp(a[1].path, b[1].path) = "Equal" ->
                      [item |-> Some([path |-> a[1].path,
                                      index_head |-> Some(a[1].change),
                                      workspace_index |-> Some(b[1].change)]),
                       i |-> i + 1, w |-> w + 1]
               [] ChangesIter_cmp(a[1].path, b[1].path) = "Greater" -> OnlyWork

\* A change set as detect_changes may leave it: any two maps over the paths.
InitChanges ==
    /\ IdleIndex
    /\ IdleObject
    /\ IdleRepo
    /\ IdleWalk
    /\ IdleStatus
    /\ IdleDiff
    /\ IdleWs
    /\ IdleChecksum
    /\ IdleEntry
    /\ IdleHistory
    /\ IdleMeta
    /\ chIndexHead \in ChangeMaps(IndexHeadChanges)
    /\ chWorkIndex \in ChangeMaps(WorkspaceIndexChanges)
    /\ chI = 0
    /\ chW = 0
    /\ chOut = <<>>
    /\ chPc = "new"

\* IntoIterator for &Changes
ChangesIntoIter ==
    /\ chPc = "new"
    /\ chPc' = "iter"
    /\ chI' = 0
    /\ chW' = 0
    /\ UNCHANGED <<chIndexHead, chWorkIndex, chOut, changesOthers>>

\* One call of ChangesIter::next by the `for` loop, which ends at None.
ChangesIterNext ==
    /\ chPc = "iter"
    /\ LET r == ChangesIter_next(chIndexHead, chWorkIndex, chI, chW)
       IN  /\ chI' = r.i
           /\ chW' = r.w
           /\ IF r.item = None
              THEN chPc' = "done" /\ chOut' = chOut
              ELSE chPc' = "iter" /\ chOut' = Append(chOut, r.item[1])
    /\ UNCHANGED <<chIndexHead, chWorkIndex, changesOthers>>

NextChanges == ChangesIntoIter \/ ChangesIterNext

SpecChanges == InitChanges /\ [][NextChanges]_vars

\* What the item for `p` carries from a map: its change if `p` is a key.
ChangeAt(map, p) == IF p \in DOMAIN map THEN Some(map[p]) ELSE None

\* C28: iterating a change set yields every path of the union of index_head
\* and workspace_index exactly once, in strictly ascending byte order, each
\* with the index_head change iff the path is a key of that map and the
\* workspace_index change iff it is a key of that map; at every point of the
\* iteration what has been yielded is in that order and carries those
\* changes.
C28_MergedChanges ==
    /\ \A n \in 1..Len(chOut) :
         /\ chOut[n].path \in DOMAIN chIndexHead \cup DOMAIN chWorkIndex
         /\ chOut[n].index_head = ChangeAt(chIndexHead, chOut[n].path)
         /\ chOut[n].workspace_index = ChangeAt(chWorkIndex, chOut[n].path)
         /\ n > 1 => ByteLess(chOut[n - 1].path, chOut[n].path)
    /\ chPc = "done" =>
         {chOut[n].path : n \in 1..Len(chOut)}
             = DOMAIN chIndexHead \cup DOMAIN chWorkIndex

\* C28 witness: "a-" is only in index_head, "a/a" in both maps and "ab" only
\* in workspace_index, and the iteration has ended with the three items.
C28_Witness ==
    /\ chPc = "done"
    /\ chOut = << [path |-> <<97, 45>>, index_head |-> Some("Added"),
                   workspace_index |-> None],
                  [path |-> <<97, SLASH, 97>>, index_head |-> Some("Modified"),
                   workspace_index |-> Some("Deleted")],
                  [path |-> <<97, 98>>, index_head |-> None,
                   workspace_index |-> Some("Modified")] >>


----------------------------------------------------------------------------
(* The length in the object header *)

\* The bytes Database::store handed to the compressor for the stored object.
StoredBytes == Zlib_decode(objFile[1]).val

\* Where the header `<type> <length>\0` of the stored bytes ends.
HeaderEnd == ReadUntil(StoredBytes, 1, 0).pos - 1

\* The digits between the space and the NUL of the header.
HeaderLength ==
    LET t == ReadUntil(StoredBytes, 1, SP)
    IN  Slice(StoredBytes, t.pos, HeaderEnd - 1)

\* C29: for every stored tree and commit (and blob) the decimal length in
\* the header `<type> <length>\0` is the number of bytes that follow the
\* header, and those bytes are the object's body.
C29_HeaderLength ==
    IsSome(objFile) =>
        /\ Slice(StoredBytes, 1, HeaderEnd)
               = Object_type(objIn) \o <<SP>> \o HeaderLength \o <<0>>
        /\ HeaderLength # <<>>
        /\ \A i \in 1..Len(HeaderLength) : IsDigit(HeaderLength[i])
        /\ DecValue(HeaderLength) = Len(StoredBytes) - HeaderEnd
        /\ (Len(HeaderLength) > 1 => HeaderLength[1] # 48)
        /\ objIn.type = "commit" =>
               Slice(StoredBytes, HeaderEnd + 1, Len(StoredBytes)) = Commit_write(objIn)
        /\ objIn.type = "tree" =>
               Slice(StoredBytes, HeaderEnd + 1, Len(StoredBytes)) = Tree_write(objIn.nodes)

\* C29 witness: a commit with a parent, an empty author name and a clock
\* before 1970 at the offset -0530 has been stored.
C29_Witness ==
    /\ IsSome(objFile)
    /\ objIn.type = "commit"
    /\ IsSome(objIn.parent)
    /\ objIn.author.name = <<>>
    /\ objIn.author.time = [secs |-> -1, offset |-> -330]
    /\ DecValue(HeaderLength) = Len(Commit_write(objIn))

\* A tree of two entries, a file and a directory, has been stored.
StoredTreeOfTwo ==
    /\ IsSome(objFile)
    /\ objIn.type = "tree"
    /\ Len(objIn.nodes) = 2
    /\ objIn.nodes[1].mode = "Regular"
    /\ objIn.nodes[2].mode = "Directory"
    /\ DecValue(HeaderLength) = Len(Tree_write(objIn.nodes))


----------------------------------------------------------------------------
(* SpecChecksum: the Write side of file::Checksum over a stream that may
   accept less than it is given (src/file.rs) *)

MaxWrites     == 2    \* write_all calls on the Checksum per behaviour
MaxWriteLen   == 2    \* bytes per write_all
MaxInterrupts == 1    \* interrupted write calls per behaviour

\* The buffers handed to write_all.
WriteBuffers == SeqsUpTo({1, 2}, MaxWriteLen) \ {<<>>}

\* What one `inner.write(buffer)` may return: Ok(n) for 0 <= n <= len, n = 0
\* being reported by write_all as WriteZero; ErrorKind::Interrupted, after
\* which write_all calls write again; any other error.
Write_outcomes(buffer) ==
    {[kind |-> "ok", n |-> n] : n \in 0..Len(buffer)}
        \cup {[kind |-> "interrupted", n |-> 0], [kind |-> "error", n |-> 0]}

\* Write for Checksum<T>, `write`, with the bytes given to the hash first and
\* the count the stream returned afterwards.
Checksum_write(hash, inner, buffer, out) ==
    [hash  |-> hash \o buffer,
     inner |-> inner \o SubSeq(buffer, 1, out.n),
     ret   |-> out]

\* One turn of the loop of Write::write_all over `write`: where the loop
\* stands after the call returned `out`, and what is left of the buffer.
WriteAll_turn(buffer, out) ==
    IF out.kind = "interrupted" THEN [pc |-> "more", buf |-> buffer]
    ELSE IF out.kind = "error" \/ out.n = 0 THEN [pc |-> "failed", buf |-> buffer]
    ELSE IF out.n = Len(buffer) THEN [pc |-> "ok", buf |-> <<>>]
    ELSE [pc |-> "more", buf |-> Slice(buffer, out.n + 1, Len(buffer))]

\* Checksum::new over an empty stream.
InitChecksum ==
    /\ IdleIndex
    /\ IdleObject
    /\ IdleRepo
    /\ IdleWalk
    /\ IdleStatus
    /\ IdleDiff
    /\ IdleWs
    /\ IdleChanges
    /\ IdleChecksum
    /\ IdleEntry
    /\ IdleHistory
    /\ IdleMeta

\* The caller starts `checksum.write_all(buffer)`.
ChecksumWriteAll ==
    /\ ckPc = "ready"
    /\ ckWrites < MaxWrites
    /\ ckWrites' = ckWrites + 1
    /\ \E buffer \in WriteBuffers : ckBuf' = buffer
    /\ ckPc' = "write_all"
    /\ UNCHANGED <<ckHash, ckInner, ckBefore, ckIntr, checksumOthers>>

\* One call of Checksum::write made by write_all.
ChecksumWrite ==
    /\ ckPc = "write_all"
    /\ \E out \in Write_outcomes(ckBuf) :
         LET w == Checksum_write(ckHash, ckInner, ckBuf, out)
             t == WriteAll_turn(ckBuf, out)
         IN  /\ out.kind = "interrupted" => ckIntr < MaxInterrupts
             /\ ckIntr' = IF out.kind = "interrupted" THEN ckIntr + 1 ELSE ckIntr
             /\ ckHash' = w.hash
             /\ ckInner' = w.inner
             /\ ckBuf' = t.buf
             /\ ckPc' = CASE t.pc = "more"   -> "write_all"
                          [] t.pc = "ok"     -> "ready"
                          [] t.pc = "failed" -> "failed"
    /\ UNCHANGED <<ckBefore, ckWrites, checksumOthers>>

\* Checksum::write_checksum up to its write_all: the digest is taken and is
\* to be written to the stream itself.
ChecksumWriteChecksum ==
    /\ ckPc = "ready"
    /\ ckBefore' = Some(ckInner)
    /\ ckBuf' = Sha1(ckHash)
    /\ ckPc' = "trailer"
    /\ UNCHANGED <<ckHash, ckInner, ckWrites, ckIntr, checksumOthers>>

\* One call of `inner.write` made by the write_all of write_checksum; the
\* stream accepts the rest of the digest, or eight bytes of it, or fails.
ChecksumTrailerWrite ==
    /\ ckPc = "trailer"
    /\ \E out \in {o \in Write_outcomes(ckBuf) :
                      o.kind = "ok" => o.n \in {0, 8, Len(ckBuf)}} :
         LET t == WriteAll_turn(ckBuf, out)
         IN  /\ out.kind = "interrupted" => ckIntr < MaxInterrupts
             /\ ckIntr' = IF out.kind = "interrupted" THEN ckIntr + 1 ELSE ckIntr
             /\ ckInner' = ckInner \o SubSeq(ckBuf, 1, out.n)
             /\ ckBuf' = t.buf
             /\ ckPc' = CASE t.pc = "more"   -> "trailer"
                          [] t.pc = "ok"     -> "done"
                          [] t.pc = "failed" -> "failed"
    /\ UNCHANGED <<ckHash, ckBefore, ckWrites, checksumOthers>>

NextChecksum ==
    ChecksumWriteAll \/ ChecksumWrite \/ ChecksumWriteChecksum \/ ChecksumTrailerWrite

SpecChecksum == InitChecksum /\ [][NextChecksum]_vars

\* The bytes the stream accepted after write_checksum was called.
Trailer == Slice(ckInner, Len(ckBefore[1]) + 1, Len(ckInner))

\* C30 (as claimed): when write_checksum has returned Ok, the 20 bytes it
\* emitted are the SHA-1 of exactly the bytes the underlying stream had
\* received before them, whatever the stream did, short writes included.
C30_TrailerOfReceived ==
    ckPc = "done" =>
        /\ Len(Trailer) = 20
        /\ Trailer = Sha1(ckBefore[1])

\* What holds instead: the trailer is the digest of every buffer that was
\* handed to Checksum::write, which is what the stream received when each
\* write call accepted all of its buffer.
TrailerOfSubmitted ==
    ckPc = "done" =>
        /\ Len(Trailer) = 20
        /\ Trailer = Sha1(ckHash)
        /\ ckHash = ckBefore[1] => Trailer = Sha1(ckBefore[1])

\* The stream accepted one byte of a two-byte buffer and write_all handed in
\* the second byte again: the hash has seen three bytes, the stream two.
ResubmittedRemainder ==
    /\ ckPc = "done"
    /\ ckBefore = Some(<<1, 2>>)
    /\ ckHash = <<1, 2, 2>>


----------------------------------------------------------------------------
(* SpecEntry: Entry::write, then Entry::read of the bytes written *)

MaxPathLen == 17    \* bytes per entry path

\* Paths of every length up to the bound, free of NUL: one byte repeated.
EntryPaths == {[i \in 1..n |-> c] : n \in 0..MaxPathLen, c \in {1, 97, 127}}

\* What follows the entry in the stream: nothing, a byte that is not NUL, a
\* NUL, or the start of another entry.
EntryTails == {<<>>, <<1>>, <<0>>, <<0, 0, 0, 1, 0, 0, 0, 0, 97>>}

InitEntry ==
    /\ IdleIndex
    /\ IdleObject
    /\ IdleRepo
    /\ IdleWalk
    /\ IdleStatus
    /\ IdleDiff
    /\ IdleWs
    /\ IdleChanges
    /\ IdleChecksum
    /\ IdleHistory
    /\ IdleMeta
    /\ enPath \in EntryPaths
    /\ enFile \in InputFiles
    /\ enTail \in EntryTails
    /\ enBytes = None
    /\ enRead = None

\* Entry::new and Entry::write into an empty buffer.
EntryWrite ==
    /\ enBytes = None
    /\ enBytes' = Some(Entry_write(Entry_new(enFile.metadata, enFile.id, enPath)))
    /\ UNCHANGED <<enPath, enFile, enTail, enRead, entryOthers>>

\* Entry::read from the start of a stream that holds the written bytes and
\* then the tail.
EntryRead ==
    /\ IsSome(enBytes)
    /\ enRead = None
    /\ enRead' = Some(Entry_read(enBytes[1] \o enTail, 1))
    /\ UNCHANGED <<enPath, enFile, enTail, enBytes, entryOthers>>

NextEntry == EntryWrite \/ EntryRead

SpecEntry == InitEntry /\ [][NextEntry]_vars

\* The padding count the format prescribes for a path of n bytes.
PadOf(n) == 8 - ((62 + n) % 8)

\* C31: the bytes written for an entry are 62 + path_len + pad long with
\* pad = 8 - ((62 + path_len) mod 8) in 1..8, so the total is a multiple of
\* 8 and the path is followed by pad NULs; Entry::read of those bytes, with
\* whatever follows them, consumes exactly the written bytes and returns the
\* same path (and the same metadata, id and flag).
C31_EntryPadding ==
    IsSome(enBytes) =>
        LET b == enBytes[1]
            n == Len(enPath)
        IN  /\ PadOf(n) \in 1..8
            /\ Len(b) = 62 + n + PadOf(n)
            /\ Len(b) % 8 = 0
            /\ SubSeq(b, 63, 62 + n) = enPath
            /\ \A i \in (62 + n + 1)..Len(b) : b[i] = 0
            /\ IsSome(enRead) =>
                   /\ enRead[1].ok
                   /\ enRead[1].val.pos = Len(b) + 1
                   /\ enRead[1].val.entry = Entry_new(enFile.metadata, enFile.id, enPath)

\* C31 witness: a path of 10 bytes (62 + 10 = 72, a multiple of 8) was
\* written with 8 NULs after it and read back from a stream that goes on
\* with a NUL byte.
C31_Witness ==
    /\ IsSome(enRead)
    /\ Len(enPath) = 10
    /\ Len(enBytes[1]) = 80
    /\ enTail = <<0>>
    /\ enRead[1].ok
    /\ enRead[1].val.entry.path = enPath
    /\ enRead[1].val.pos = 81


----------------------------------------------------------------------------
(* SpecStore: what a successful Database::store leaves behind *)

\* The store call of process p has returned Ok with the id of its object.
StoreReturnedOk(p) ==
    /\ cmd[p].op = "store"
    /\ res[p] = Some(Ok(Database_store_plan(cmd[p].object).id))

\* C34 (as claimed): whenever store(o) has returned Ok(id), the object file
\* of id exists at its final path and load(id) succeeds, whatever the
\* interleaving of the writers and whatever temp names they drew.
C34_StoreThenLoad ==
    \A p \in DOMAIN pc :
        StoreReturnedOk(p) =>
            LET path == ObjectPath(Database_store_plan(cmd[p].object).id)
            IN  /\ path \in DOMAIN fs
                /\ Database_load(Some(fs[path]), 0) = Ok(cmd[p].object)

\* What holds instead: a store call that returned Ok after its own rename
\* has left the object file, with the bytes of the object.
StoredByOwnRename ==
    \A p \in DOMAIN pc :
        (StoreReturnedOk(p) /\ \E r \in renamedBy : r.proc = p) =>
            LET plan == Database_store_plan(cmd[p].object)
            IN  /\ ObjectPath(plan.id) \in DOMAIN fs
                /\ fs[ObjectPath(plan.id)] = plan.bytes
                /\ Database_load(Some(plan.bytes), 0) = Ok(cmd[p].object)

----------------------------------------------------------------------------
(* SpecHistory: `add` and `commit` commands of several processes on one
   repository that starts empty, one store or rotation per step
   (src/command/add.rs, src/command/commit.rs, src/references.rs) *)

MaxRuns == 3       \* commands started per behaviour

\* The paths `add` is given: "f" and "d/g".
HiPaths == {<<102>>, <<100, SLASH, 103>>}

\* `grit add <path>` on a work tree that holds variant v of the file, and
\* `grit commit`.
HiCmds ==
    {[op |-> "add", path |-> p, v |-> v] : p \in HiPaths, v \in 1..MaxVariants}
    \cup {[op |-> "commit", path |-> <<>>, v |-> 0]}

\* The blob `add` reads from the work tree (the content WalkFile hashes).
HiBlob(c) == [type |-> "blob", data |-> <<c.path[Len(c.path)], c.v>>]

\* The object Commit::run builds from the tree of the index and the parent
\* read from HEAD.
Commit_new(tree, parent) ==
    [type    |-> "commit",
     tree    |-> tree,
     parent  |-> parent,
     author  |-> [name |-> <<65, SP, 66>>, email |-> <<97, 64, 98>>,
                  time |-> [secs |-> 0, offset |-> 0]],
     message |-> <<109, LF>>]

\* Database::store answering Ok(id) without writing the object file.
Database_store_Nothing(db, o) == db

\* Database::store by the only process that stores (the index lock is held):
\* the temp file is created, written and renamed onto the object's path.
Database_store(db, o) ==
    MapInsert(db, Database_store_plan(o).id, Database_store_plan(o).bytes)

IndexLockPath == WriteLock_source(IndexPath)

\* The locals of a command that has not started.
NoMem ==
    [entries |-> EmptyMap, changed |-> FALSE, iter |-> None, stack |-> <<>>,
     count |-> <<>>, tree |-> None, parent |-> None, commit |-> None,
     fs0 |-> EmptyMap, db0 |-> EmptyMap]

InitHistory ==
    /\ IdleIndex
    /\ IdleObject
    /\ IdleRepo
    /\ IdleWalk
    /\ IdleStatus
    /\ IdleDiff
    /\ IdleWs
    /\ IdleChanges
    /\ IdleChecksum
    /\ IdleEntry
    /\ IdleMeta
    /\ hiFs = EmptyMap
    /\ hiDb = EmptyMap
    /\ hiPc = [p \in Procs |-> "idle"]
    /\ hiCmd = [p \in Procs |-> None]
    /\ hiMem = [p \in Procs |-> NoMem]
    /\ hiRes = [p \in Procs |-> None]
    /\ hiRuns = 0
    /\ hiFails = 0
    /\ hiLog = <<>>

\* The command of p ends with result r in the repository (f, db): its locals
\* are dropped and the outcome is remembered with the repository as the
\* command found it and as it leaves it.
HiEnd(p, c, m, r, f, db) ==
    /\ hiFs' = f
    /\ hiDb' = db
    /\ hiPc' = [hiPc EXCEPT ![p] = "idle"]
    /\ hiCmd' = [hiCmd EXCEPT ![p] = None]
    /\ hiMem' = [hiMem EXCEPT ![p] = NoMem]
    /\ hiRes' = [hiRes EXCEPT ![p] =
                    Some([cmd |-> c, res |-> r, opened |-> IsSome(m.iter),
                          entries |-> m.entries,
                          fs0 |-> m.fs0, db0 |-> m.db0, fs1 |-> f, db1 |-> db])]

\* Index::lock taking the index without looking for `index.lock`.
Index_lock_fails_Never(f) == FALSE

\* Index::lock, `WriteLock::new(path)?`: fails while another command holds
\* `index.lock`.
Index_lock_fails(f) == Atomic_new_exists(f, IndexLockPath)

\* Repository::index at the construction of Add and of Commit: Index::lock
\* creates `index.lock` or fails, then reads the index file.
HiStart(p) ==
    /\ hiPc[p] = "idle"
    /\ hiRuns < MaxRuns
    /\ hiRuns' = hiRuns + 1
    /\ \E c \in HiCmds :
         LET disk == IF IndexPath \in DOMAIN hiFs THEN Some(hiFs[IndexPath]) ELSE None
             r    == Index_lock_read(disk)
             m0   == [NoMem EXCEPT !.fs0 = hiFs, !.db0 = hiDb]
         IN  IF Index_lock_fails(hiFs)
             THEN HiEnd(p, c, m0, Err("AlreadyExists"), hiFs, hiDb)
             ELSE IF ~r.ok
             THEN HiEnd(p, c, m0, r, hiFs, hiDb)
             ELSE /\ hiFs' = FsCreate(hiFs, IndexLockPath)
                  /\ hiCmd' = [hiCmd EXCEPT ![p] = Some(c)]
                  /\ hiMem' = [hiMem EXCEPT ![p] =
                                  [m0 EXCEPT !.entries = r.val,
                                             !.iter = Some(Iter_new(r.val))]]
                  /\ hiPc' = [hiPc EXCEPT ![p] = IF c.op = "add" THEN "store" ELSE "walk"]
                  /\ UNCHANGED <<hiDb, hiRes>>
    /\ UNCHANGED <<hiFails, hiLog, historyOthers>>

\* Add::run, the loop body for the one file: Database::store of the blob,
\* then Index::insert.
HiAddStore(p) ==
    /\ hiPc[p] = "store"
    /\ LET c == hiCmd[p][1]
           m == hiMem[p]
           i == Index_insert(m.entries, m.changed, WalkFile(c.path, c.v).metadata,
                             Database_store_plan(HiBlob(c)).id, c.path)
       IN  /\ hiDb' = Database_store(hiDb, HiBlob(c))
           /\ hiMem' = [hiMem EXCEPT ![p] =
                           [m EXCEPT !.entries = i.entries, !.changed = i.changed]]
    /\ hiPc' = [hiPc EXCEPT ![p] = "index_commit"]
    /\ UNCHANGED <<hiFs, hiCmd, hiRes, hiRuns, hiFails, hiLog, historyOthers>>

\* Index::commit at the end of Add::run: an unchanged index drops the lock,
\* a changed one is written to `index.lock`, which is renamed onto `index`.
HiIndexCommit(p) ==
    /\ hiPc[p] = "index_commit"
    /\ LET m == hiMem[p]
           f == IF m.changed
                THEN FsRename(MapInsert(hiFs, IndexLockPath, Index_bytes(m.entries)),
                              IndexLockPath, IndexPath)
                ELSE FsRemove(hiFs, IndexLockPath)
       IN  HiEnd(p, hiCmd[p][1], m, Ok(<<>>), f, hiDb)
    /\ UNCHANGED <<hiRuns, hiFails, hiLog, historyOthers>>

\* Commit::walk_index, one turn of the loop: Iterator::next, then the body,
\* which stores a tree when a directory closes.  An `unreachable!()` unwinds
\* through the destructor of the Index, which removes `index.lock`.
HiWalkStep(p) ==
    /\ hiPc[p] = "walk"
    /\ LET m == hiMem[p]
           r == Iter_next(m.iter[1])
       IN  /\ IsSome(r.item)
           /\ LET w == WalkIndex_body(m.entries, m.stack, m.count, hiDb, r.item[1])
              IN  IF w.pc = "panic"
                  THEN HiEnd(p, hiCmd[p][1], m, Err("Panic"),
                             FsRemove(hiFs, IndexLockPath), hiDb)
                  ELSE /\ hiDb' = w.db
                       /\ hiMem' = [hiMem EXCEPT ![p] =
                                       [m EXCEPT !.iter = Some(r.it),
                                                 !.stack = w.stack,
                                                 !.count = w.count]]
                       /\ UNCHANGED <<hiFs, hiPc, hiCmd, hiRes>>
    /\ UNCHANGED <<hiRuns, hiFails, hiLog, historyOthers>>

\* The end of walk_index answering the id of the tree without nodes when
\* the stack is empty.
WalkIndex_pop_OrEmptyTree(stack) ==
    IF stack = <<>>
    THEN Ok(Database_store_plan([type |-> "tree", nodes |-> Tree_new(<<>>)]).id)
    ELSE Ok(stack[Len(stack)].id)

\* The end of walk_index:
\* `stack.pop().expect("[INTERNAL ERROR]: index must contain ...").id`.
WalkIndex_pop(stack) ==
    IF stack = <<>> THEN Err("Panic") ELSE Ok(stack[Len(stack)].id)

\* Commit::walk_index once the iterator is exhausted.  The panic unwinds
\* through the destructor of the Index, which removes `index.lock`.
HiWalkFinish(p) ==
    /\ hiPc[p] = "walk"
    /\ LET m == hiMem[p]
           r == WalkIndex_pop(m.stack)
       IN  /\ ~IsSome(Iter_next(m.iter[1]).item)
           /\ IF ~r.ok
              THEN HiEnd(p, hiCmd[p][1], m, r,
                         FsRemove(hiFs, IndexLockPath), hiDb)
              ELSE /\ hiMem' = [hiMem EXCEPT ![p] =
                                   [m EXCEPT !.tree = Some(r.val),
                                             !.stack = SubSeq(m.stack, 1, Len(m.stack) - 1)]]
                   /\ hiPc' = [hiPc EXCEPT ![p] = "read_head"]
                   /\ UNCHANGED <<hiFs, hiDb, hiCmd, hiRes>>
    /\ UNCHANGED <<hiRuns, hiFails, hiLog, historyOthers>>

\* Commit::run, `self.references.read_head()?`: the lock on HEAD is taken,
\* HEAD is read if it exists, and the lock is dropped on the way out.
HiReadHead(p) ==
    /\ hiPc[p] = "read_head"
    /\ LET m == hiMem[p]
           r == References_read_head(hiFs)
       IN  IF Atomic_new_exists(hiFs, HeadLock)
           THEN HiEnd(p, hiCmd[p][1], m, Err("AlreadyExists"),
                      FsRemove(hiFs, IndexLockPath), hiDb)
           ELSE IF ~r.ok
           THEN HiEnd(p, hiCmd[p][1], m, r, FsRemove(hiFs, IndexLockPath), hiDb)
           ELSE /\ hiMem' = [hiMem EXCEPT ![p] = [m EXCEPT !.parent = r.val]]
                /\ hiPc' = [hiPc EXCEPT ![p] = "store_commit"]
                /\ UNCHANGED <<hiFs, hiDb, hiCmd, hiRes>>
    /\ UNCHANGED <<hiRuns, hiFails, hiLog, historyOthers>>

\* Commit::run, `self.database.store(&commit)?`.
HiStoreCommit(p) ==
    /\ hiPc[p] = "store_commit"
    /\ LET m == hiMem[p]
           c == Commit_new(m.tree[1], m.parent)
       IN  /\ hiDb' = Database_store(hiDb, c)
           /\ hiMem' = [hiMem EXCEPT ![p] = [m EXCEPT !.commit = Some(c)]]
    /\ hiPc' = [hiPc EXCEPT ![p] = "write_head"]
    /\ UNCHANGED <<hiFs, hiCmd, hiRes, hiRuns, hiFails, hiLog, historyOthers>>

\* References::write_head, first half: WriteLock::new on HEAD and the write
\* of the id, in hexadecimal, to `HEAD.lock`.
HiWriteHeadLock(p) ==
    /\ hiPc[p] = "write_head"
    /\ LET m == hiMem[p]
       IN  IF Atomic_new_exists(hiFs, HeadLock)
           THEN HiEnd(p, hiCmd[p][1], m, Err("AlreadyExists"),
                      FsRemove(hiFs, IndexLockPath), hiDb)
           ELSE /\ hiFs' = MapInsert(hiFs, HeadLock,
                                     Id_write_hex(Database_store_plan(m.commit[1]).id))
                /\ hiPc' = [hiPc EXCEPT ![p] = "head_commit"]
                /\ UNCHANGED <<hiDb, hiCmd, hiMem, hiRes>>
    /\ UNCHANGED <<hiRuns, hiFails, hiLog, historyOthers>>

\* References::write_head, second half: `head.commit()` renames `HEAD.lock`
\* onto HEAD.  The log keeps what HEAD held just before.
HiWriteHeadCommit(p) ==
    /\ hiPc[p] = "head_commit"
    /\ hiFs' = FsRename(hiFs, HeadLock, HeadPath)
    /\ hiLog' = Append(hiLog,
                       [proc   |-> p,
                        object |-> hiMem[p].commit[1],
                        id     |-> Database_store_plan(hiMem[p].commit[1]).id,
                        before |-> References_read_head(hiFs)])
    /\ hiPc' = [hiPc EXCEPT ![p] = "finish"]
    /\ UNCHANGED <<hiDb, hiCmd, hiMem, hiRes, hiRuns, hiFails, historyOthers>>

\* Commit::run returns Ok after its `println!`; the Commit is dropped, and
\* with it the Index, whose destructor removes `index.lock`.
HiFinish(p) ==
    /\ hiPc[p] = "finish"
    /\ HiEnd(p, hiCmd[p][1], hiMem[p], Ok(<<>>), FsRemove(hiFs, IndexLockPath), hiDb)
    /\ UNCHANGED <<hiRuns, hiFails, hiLog, historyOthers>>

\* The next call of p is one that reads or writes a file.
HiDoesIo(p) ==
    \/ hiPc[p] \in {"store", "index_commit", "read_head", "store_commit",
                    "write_head", "head_commit"}
    \/ /\ hiPc[p] = "walk"
       /\ LET r == Iter_next(hiMem[p].iter[1])
          IN  IsSome(r.item) /\ r.item[1].kind = "Directory"

\* An I/O error in the next call of p: `?` returns it, and the destructors
\* remove the lock files p holds.
HiFail(p) ==
    /\ HiDoesIo(p)
    /\ hiFails < MaxFaults
    /\ hiFails' = hiFails + 1
    /\ HiEnd(p, hiCmd[p][1], hiMem[p], Err("Io"),
             FsRemove(FsRemove(hiFs, IndexLockPath),
                      IF hiPc[p] = "head_commit" THEN HeadLock ELSE IndexLockPath),
             hiDb)
    /\ UNCHANGED <<hiRuns, hiLog, historyOthers>>

NextHistory ==
    \E p \in Procs :
        \/ HiStart(p)
        \/ HiAddStore(p)
        \/ HiIndexCommit(p)
        \/ HiWalkStep(p)
        \/ HiWalkFinish(p)
        \/ HiReadHead(p)
        \/ HiStoreCommit(p)
        \/ HiWriteHeadLock(p)
        \/ HiWriteHeadCommit(p)
        \/ HiFinish(p)
        \/ HiFail(p)

SpecHistory == InitHistory /\ [][NextHistory]_vars

\* The ids the on-disk index records, each naming a blob of the store.
IndexBlobsPresent ==
    IndexPath \in DOMAIN hiFs =>
        LET r == Index_lock_read(Some(hiFs[IndexPath]))
        IN  /\ r.ok
            /\ \A path \in DOMAIN r.val :
                 LET o == Database_load(Database_file(hiDb, r.val[path].id), 0)
                 IN  o.ok /\ o.val.type = "blob"

\* HEAD, when it exists, names a commit object of the store whose root tree
\* and subtrees are all there: Status::walk_head finds every tree it loads.
HeadCommitPresent ==
    HeadPath \in DOMAIN hiFs =>
        LET h == References_read_head(hiFs)
        IN  /\ h.ok
            /\ IsSome(h.val)
            /\ \E i \in DOMAIN hiLog :
                 /\ hiLog[i].id = h.val[1]
                 /\ Database_file(hiDb, h.val[1])
                        = Some(Database_store_plan(hiLog[i].object).bytes)
                 /\ WalkHead(hiDb, hiLog[i].object.tree).ok

\* C32: in every reachable state of interleaved add and commit commands,
\* every id recorded in the on-disk index names a blob present in the object
\* store, and HEAD, if it exists, names a stored commit whose root tree and
\* all subtrees below it are present.
C32_ReferentialIntegrity == IndexBlobsPresent /\ HeadCommitPresent

\* Both files have been rotated: the index holds "d/g" and "f", and HEAD
\* names a commit of a tree with a subtree.
C32_Witness ==
    /\ IndexPath \in DOMAIN hiFs
    /\ DOMAIN Index_lock_read(Some(hiFs[IndexPath])).val = HiPaths
    /\ HeadPath \in DOMAIN hiFs
    /\ Len(hiLog) = 1
    /\ Cardinality(DOMAIN WalkHead(hiDb, hiLog[1].object.tree).val) = 2

----------------------------------------------------------------------------
(* The history that successive write_head calls leave *)

\* What HEAD says now.
HeadNow == References_read_head(hiFs)

\* The processes inside a command, past Index::lock.
Running == {p \in Procs : hiPc[p] # "idle"}

\* C33: a command holds `index.lock` from its start to its end, alone; for
\* every commit whose write_head has rotated HEAD, the parent recorded in
\* the commit object is what HEAD held just before that rotation (nothing
\* for the first commit, the previous commit afterwards); no two commits
\* record the same parent, and HEAD names the last of them.
C33_LinearHistory ==
    /\ Cardinality(Running) <= 1
    /\ Running # {} => IndexLockPath \in DOMAIN hiFs
    /\ \A i \in DOMAIN hiLog :
         /\ hiLog[i].before = Ok(hiLog[i].object.parent)
         /\ hiLog[i].object.parent
                = IF i = 1 THEN None ELSE Some(hiLog[i - 1].id)
    /\ \A i, j \in DOMAIN hiLog :
         i # j => hiLog[i].object.parent # hiLog[j].object.parent
    /\ HeadNow = IF hiLog = <<>> THEN Ok(None)
                 ELSE Ok(Some(hiLog[Len(hiLog)].id))

\* Two processes have each run a commit to its end, one after the other.
C33_Witness ==
    /\ Len(hiLog) = 2
    /\ hiLog[1].proc # hiLog[2].proc
    /\ \A p \in Procs :
         /\ hiPc[p] = "idle"
         /\ IsSome(hiRes[p])
         /\ hiRes[p][1].cmd.op = "commit"
         /\ hiRes[p][1].res = Ok(<<>>)

----------------------------------------------------------------------------
(* `commit` on an index without entries *)

\* The steps of Commit::run after walk_index has returned.
PastWalk == {"read_head", "store_commit", "write_head", "head_commit", "finish"}

\* C35: a commit that opened an index with no entries never gets past
\* walk_index; it ends with the panic of the empty stack, having stored no
\* object and changed no file: HEAD and the index are as it found them and
\* `index.lock` is gone.
C35_EmptyIndexCommit ==
    \A p \in Procs :
        /\ (/\ IsSome(hiCmd[p])
            /\ hiCmd[p][1].op = "commit"
            /\ hiMem[p].entries = EmptyMap)
           => /\ hiPc[p] \notin PastWalk
              /\ hiDb = hiMem[p].db0
        /\ (/\ IsSome(hiRes[p])
            /\ hiRes[p][1].opened
            /\ hiRes[p][1].cmd.op = "commit"
            /\ hiRes[p][1].entries = EmptyMap)
           => /\ hiRes[p][1].res = Err("Panic")
              /\ hiRes[p][1].db1 = hiRes[p][1].db0
              /\ hiRes[p][1].fs1 = hiRes[p][1].fs0
              /\ IndexLockPath \notin DOMAIN hiRes[p][1].fs1

\* A commit has opened the index of a repository that holds a blob but no
\* index yet (an `add` failed before its rotation), and has panicked.
C35_Witness ==
    \E p \in Procs :
        /\ IsSome(hiRes[p])
        /\ hiRes[p][1].opened
        /\ hiRes[p][1].cmd.op = "commit"
        /\ hiRes[p][1].entries = EmptyMap
        /\ hiRes[p][1].res = Err("Panic")
        /\ hiRes[p][1].db0 # EmptyMap
        /\ IndexPath \notin DOMAIN hiFs

----------------------------------------------------------------------------
(* SpecDiff: whether myers returns *)

\* C36 (as claimed): myers(a, b) returns a value for every pair of finite
\* sequences: it neither reaches `unreachable!()` nor indexes out of bounds,
\* and on pairs without a common element, an empty a or b included, the
\* value is len(a) + len(b).
C36_AlwaysReturns ==
    MyersEnded =>
        /\ dfPc = "done"
        /\ EditDistance(dfA, dfB) = Len(dfA) + Len(dfB)
               => dfOut = Some(Len(dfA) + Len(dfB))

\* The part of C36 that holds: no index of the Vec or of the slices is out
\* of bounds; a panic of myers is always the `unreachable!()` after the
\* outer loop has run out.
PanicIsUnreachable ==
    dfPc = "panic" => dfD > Myers_last(Len(dfA) + Len(dfB))

\* myers has reached `unreachable!()` on two empty slices.
PanicOnEmpty == dfPc = "panic" /\ dfA = <<>> /\ dfB = <<>>

----------------------------------------------------------------------------
(* SpecIndex: whether opening an index ends *)

\* The first n bytes of the index file.
Truncated(buffer, n) == SubSeq(buffer, 1, n)

\* Index::lock ends: it yields an index, an error or a panic.
Terminates(r) == r.ok \/ r.err # "Hang"

\* C37 (as claimed): opening an index terminates for every content of the
\* index file; the path loop of Entry::read ends when the input runs out
\* before a chunk ending in NUL has been read.  The contents tried are the
\* prefixes of a committed index file.
C37_OpenTerminates ==
    IsSome(idxDisk) =>
        \A n \in 0..Len(idxDisk[1]) :
            Terminates(Index_lock_read(Some(Truncated(idxDisk[1], n))))

\* The committed index of the single entry "a", cut after the path byte: the
\* header and 63 bytes of the entry, without its NUL.  Index::lock does not
\* end on it.
HangsWhenCutAfterPath ==
    /\ IsSome(idxDisk)
    /\ DOMAIN idxEntries = {<<97>>}
    /\ Len(idxDisk[1]) = 96
    /\ ~Terminates(Index_lock_read(Some(Truncated(idxDisk[1], 75))))

\* Opening ends on every prefix that is cut outside the path and padding of
\* an entry: inside the header, the stat fields, the id or the flag.
TerminatesOutsidePaths ==
    (IsSome(idxDisk) /\ Cardinality(DOMAIN idxEntries) = 1) =>
        \A n \in 0..73 :
            Terminates(Index_lock_read(Some(Truncated(idxDisk[1], n))))

----------------------------------------------------------------------------
(* SpecMeta: From<&fs::Metadata> for Metadata, then Metadata::write
   (src/meta.rs).  A 64-bit value is its 8 bytes, big-endian and in two's
   complement; a u32 is its 4 bytes. *)

MaxStatFields == 2   \* stat fields that differ from the base snapshot

\* 0, 1, 2^31, 2^32 - 1, 2^32, 2^32 + 1 and -1 (2^64 - 1 when unsigned).
StatValues ==
    {<<0, 0, 0, 0, 0, 0, 0, 0>>, <<0, 0, 0, 0, 0, 0, 0, 1>>,
     <<0, 0, 0, 0, 128, 0, 0, 0>>, <<0, 0, 0, 0, 255, 255, 255, 255>>,
     <<0, 0, 0, 1, 0, 0, 0, 0>>, <<0, 0, 0, 1, 0, 0, 0, 1>>,
     <<255, 255, 255, 255, 255, 255, 255, 255>>}

\* The fields that MetadataExt returns as i64 or u64, in the order of the
\* struct.
WideFields == <<"ctime", "ctime_nsec", "mtime", "mtime_nsec", "dev", "ino", "size">>

\* A stat result with every wide field 1, owned by user and group 1000.
BaseStat(type, exec) ==
    [ctime |-> <<0, 0, 0, 0, 0, 0, 0, 1>>, ctime_nsec |-> <<0, 0, 0, 0, 0, 0, 0, 1>>,
     mtime |-> <<0, 0, 0, 0, 0, 0, 0, 1>>, mtime_nsec |-> <<0, 0, 0, 0, 0, 0, 0, 1>>,
     dev |-> <<0, 0, 0, 0, 0, 0, 0, 1>>, ino |-> <<0, 0, 0, 0, 0, 0, 0, 1>>,
     size |-> <<0, 0, 0, 0, 0, 0, 0, 1>>,
     uid |-> <<0, 0, 3, 232>>, gid |-> <<0, 0, 3, 232>>,
     type |-> type, exec |-> exec]

\* `as u32`: the low 32 bits, whatever the value.
U32_try_from_Wrapping(v) == Ok(SubSeq(v, 5, 8))

\* u32::try_from of an i64 or u64: the value when it is in 0..2^32 - 1, that
\* is when its upper 32 bits are zero, an error otherwise.
U32_try_from(v) ==
    IF SubSeq(v, 1, 4) = Zeros(4) THEN Ok(SubSeq(v, 5, 8)) ELSE Err("TryFromInt")

\* From<&fs::Metadata> for Metadata: the closure returns at the first field
\* that does not fit, and `expect` panics on that error.
Metadata_from(stat) ==
    LET conv == [i \in 1..Len(WideFields) |-> U32_try_from(stat[WideFields[i]])]
        Field(i) == conv[i].val
    IN  IF \E i \in 1..Len(WideFields) : ~conv[i].ok THEN Err("Panic")
        ELSE Ok([ctime |-> Field(1), ctime_nsec |-> Field(2), mtime |-> Field(3),
                 mtime_nsec |-> Field(4), dev |-> Field(5), ino |-> Field(6),
                 mode |-> Mode_from(stat),
                 uid |-> stat.uid, gid |-> stat.gid, size |-> Field(7)])

\* Metadata::write of fields held as 4 bytes each.
Metadata_write_bytes(m) ==
    m.ctime \o m.ctime_nsec \o m.mtime \o m.mtime_nsec \o m.dev \o m.ino
    \o BE32(Mode_as_u32(m.mode)) \o m.uid \o m.gid \o m.size

InitMeta ==
    /\ IdleIndex
    /\ IdleObject
    /\ IdleRepo
    /\ IdleWalk
    /\ IdleStatus
    /\ IdleDiff
    /\ IdleWs
    /\ IdleChanges
    /\ IdleChecksum
    /\ IdleEntry
    /\ IdleHistory
    /\ \E type \in {"file", "dir"}, exec \in BOOLEAN,
          which \in [1..MaxStatFields -> 1..Len(WideFields)],
          vals \in [1..MaxStatFields -> StatValues] :
         mtStat = [f \in DOMAIN BaseStat(type, exec) |->
                      IF \E i \in 1..MaxStatFields : WideFields[which[i]] = f
                      THEN vals[CHOOSE i \in 1..MaxStatFields : WideFields[which[i]] = f]
                      ELSE BaseStat(type, exec)[f]]
    /\ mtOut = None
    /\ mtBytes = None

\* Metadata::from(&metadata), as the walks of the work tree call it for the
\* entries they yield.
MetadataFrom ==
    /\ mtOut = None
    /\ mtOut' = Some(Metadata_from(mtStat))
    /\ UNCHANGED <<mtStat, mtBytes, metaOthers>>

\* Metadata::write of the converted value, as Entry::write calls it.
MetadataWrite ==
    /\ IsSome(mtOut)
    /\ mtOut[1].ok
    /\ mtBytes = None
    /\ mtBytes' = Some(Metadata_write_bytes(mtOut[1].val))
    /\ UNCHANGED <<mtStat, mtOut, metaOthers>>

NextMeta == MetadataFrom \/ MetadataWrite

SpecMeta == InitMeta /\ [][NextMeta]_vars

\* The value of a u32 as a 64-bit value.
Widen(u) == Zeros(4) \o u

\* Field i of the 40 bytes of Metadata::write.
WrittenField(b, i) == SubSeq(b, 4 * i - 3, 4 * i)

\* C38: when one of ctime, ctime_nsec, mtime, mtime_nsec, dev, ino or size
\* lies outside 0..2^32 - 1 the conversion aborts and nothing is written;
\* otherwise every one of them, and uid and gid, is in the Metadata and in
\* the bytes written to the index with exactly the value the OS gave.
C38_ExactOrAbort ==
    /\ IsSome(mtOut) =>
         /\ (\E i \in 1..Len(WideFields) :
                 SubSeq(mtStat[WideFields[i]], 1, 4) # Zeros(4))
            => mtOut[1] = Err("Panic")
         /\ mtOut[1].ok =>
              /\ \A i \in 1..Len(WideFields) :
                   Widen(mtOut[1].val[WideFields[i]]) = mtStat[WideFields[i]]
              /\ mtOut[1].val.uid = mtStat.uid
              /\ mtOut[1].val.gid = mtStat.gid
    /\ IsSome(mtBytes) =>
         /\ \A i \in 1..6 : Widen(WrittenField(mtBytes[1], i)) = mtStat[WideFields[i]]
         /\ Widen(WrittenField(mtBytes[1], 10)) = mtStat.size
         /\ WrittenField(mtBytes[1], 8) = mtStat.uid
         /\ WrittenField(mtBytes[1], 9) = mtStat.gid

\* A size of 2^32 - 1 and an mtime of 2^31 have been written as they are.
C38_Witness ==
    /\ IsSome(mtBytes)
    /\ mtStat.size = <<0, 0, 0, 0, 255, 255, 255, 255>>
    /\ mtStat.mtime = <<0, 0, 0, 0, 128, 0, 0, 0>>
    /\ WrittenField(mtBytes[1], 10) = <<255, 255, 255, 255>>

\* A size of 2^32 aborts the conversion.
AbortsOnWideSize ==
    /\ mtStat.size = <<0, 0, 0, 1, 0, 0, 0, 0>>
    /\ mtOut = Some(Err("Panic"))

----------------------------------------------------------------------------
(* SpecStatus: what the untracked set covers *)

\* p is in the untracked set as itself, or lies beneath a directory that is
\* there with its trailing `/`.
CoveredBy(un, p) ==
    \/ p \in un
    \/ \E a \in Range(ProperAncestors(p)) \ {<<>>} : (a \o <<SLASH>>) \in un

\* C39 (as claimed): after walk_workspace, every regular file of the working
\* tree outside `.git` that is not a file entry of the index is covered by
\* the untracked set, as itself or through a directory above it; a file
\* whose path is only a directory of the index is among them.
C39_UntrackedCoverage ==
    (IsSome(stMem) /\ stMem[1].pc = "detect_changes") =>
        \A p \in DOMAIN stWork :
            (/\ Mode_is_file(stWork[p].mode)
             /\ ~PathStartsWith(p, DOTGIT)
             /\ ~Index_contains_file(stEntries, p))
            => CoveredBy(stMem[1].workspace.untracked, p)

\* The part of C39 that holds: the same for the files whose path is not a
\* directory of the index.
UntrackedCoverageOfPlainFiles ==
    (IsSome(stMem) /\ stMem[1].pc = "detect_changes") =>
        \A p \in DOMAIN stWork :
            (/\ Mode_is_file(stWork[p].mode)
             /\ ~PathStartsWith(p, DOTGIT)
             /\ ~Index_contains(stEntries, p))
            => CoveredBy(stMem[1].workspace.untracked, p)

\* The file "d" lies in the working tree, the index holds "d/g" and no
\* entry "d", and walk_workspace has put "d" among the tracked files and
\* left the untracked set empty.
FileAtIndexDirectoryIsTracked ==
    /\ IsSome(stMem)
    /\ stMem[1].pc = "detect_changes"
    /\ <<100>> \in DOMAIN stWork
    /\ Mode_is_file(stWork[<<100>>].mode)
    /\ PathDG \in DOMAIN stEntries
    /\ <<100>> \notin DOMAIN stEntries
    /\ <<100>> \in DOMAIN stMem[1].workspace.tracked
    /\ stMem[1].workspace.untracked = {}

====
